---- MODULE Spec2Model ----
(***************************************************************************)
(* Model of the report pipeline of jira-analytics (src/report-generator.js) *)
(*                                                                         *)
(* Time is counted in whole hours since the epoch.  JavaScript objects     *)
(* live in `heap` (address -> record) so that reference identity, copying  *)
(* and mutation are visible; arrays are sequences of addresses.            *)
(* JavaScript values are tagged records: Undefined, Null, Str(chars) for a *)
(* string given as its sequence of characters, DateStr(h) for a string     *)
(* that Date parses to hour h.                                             *)
(***************************************************************************)
EXTENDS Integers, Sequences, FiniteSets, TLC

VARIABLES clock, heap, issues, categorized, threw, lastCall, grouped,
          velocityData, velocity, breakdown, trends, response, fetched,
          boards, projectReplies, collected, file, calls, logged

\* the state of a multi-board fetch and of the activity trackers
clientVars == <<boards, projectReplies, collected, file, calls, logged>>

\* the state of the report summaries and of the tracker client
summaryVars == <<velocityData, velocity, breakdown, trends, response, fetched, clientVars>>

vars == <<clock, heap, issues, categorized, threw, lastCall, grouped,
          velocityData, velocity, breakdown, trends, response, fetched,
          boards, projectReplies, collected, file, calls, logged>>

(***************************************************************************)
(* Bounds                                                                  *)
(***************************************************************************)
\* longest input list
MaxIssues == 2
\* how many hours the wall clock may advance during a run
MaxTicks == 2
\* longest input list of groupIssuesByEpic
MaxGroupIssues == 4

\* wall-clock reading (in hours) at the start of a run
C0 == 1000
HoursPerDay == 24

(***************************************************************************)
(* JavaScript values                                                       *)
(***************************************************************************)
Undefined == [k |-> "undefined"]
Null == [k |-> "null"]
Str(chars) == [k |-> "string", s |-> chars]
DateStr(h) == [k |-> "string", date |-> h]
NoObj == [k |-> "free"]

IsStr(v) == v.k = "string" /\ "s" \in DOMAIN v
IsDateStr(v) == v.k = "string" /\ "date" \in DOMAIN v

\* JavaScript truthiness of undefined, null, strings and objects
Truthy(v) ==
  \/ v.k = "object"
  \/ /\ v.k = "string"
     /\ IsStr(v) => v.s # <<>>

\* a || b
Or(a, b) == IF Truthy(a) THEN a ELSE b

UpperChars == <<"A","B","C","D","E","F","G","H","I","J","K","L","M",
                "N","O","P","Q","R","S","T","U","V","W","X","Y","Z">>

\* String.prototype.toLowerCase on a character sequence
ToLowerCase(s) ==
  LET LowerChars == <<"a","b","c","d","e","f","g","h","i","j","k","l","m",
                      "n","o","p","q","r","s","t","u","v","w","x","y","z">>
      ToLowerChar(c) ==
        IF \E i \in 1..Len(UpperChars) : UpperChars[i] = c
        THEN LowerChars[CHOOSE i \in 1..Len(UpperChars) : UpperChars[i] = c]
        ELSE c
  IN [i \in 1..Len(s) |-> ToLowerChar(s[i])]

\* String.prototype.includes on character sequences
Includes(s, sub) ==
  \E i \in 0..(Len(s) - Len(sub)) : SubSeq(s, i + 1, i + Len(sub)) = sub

(***************************************************************************)
(* The moment shim (report-generator.js lines 3-32).  A Date is            *)
(* [valid, t]: an Invalid Date has valid = FALSE; a number that may be NaN *)
(* is [nan, n].                                                            *)
(***************************************************************************)
InvalidDate == [valid |-> FALSE, t |-> 0]
DateAt(h) == [valid |-> TRUE, t |-> h]
NaN == [nan |-> TRUE, n |-> 0]
Num(n) == [nan |-> FALSE, n |-> n]

\* new Date(date) for a string argument
NewDate(date) == IF IsDateStr(date) THEN DateAt(date.date) ELSE InvalidDate

\* moment(date): const d = date ? new Date(date) : new Date()
Moment(date, wallClock) ==
  IF Truthy(date) THEN NewDate(date) ELSE DateAt(wallClock)

\* subtract(num, 'days'): setDate(getDate() - num), a shift by whole calendar
\* days (24 hours each where the local time zone has no clock change)
Subtract(d, num) == IF d.valid THEN DateAt(d.t - num * HoursPerDay) ELSE d

\* isAfter(other): d > otherD; a comparison with NaN is false
IsAfter(d, other) == d.valid /\ other.valid /\ d.t > other.t

\* mutant: fractional days rounded up instead of down
DiffDaysCeil(d, other) ==
  IF d.valid /\ other.valid
  THEN Num(-((other.t - d.t) \div HoursPerDay))
  ELSE NaN

\* diff(other, 'days'): Math.floor(diffMs / (1000 * 60 * 60 * 24))
DiffDays(d, other) ==
  IF d.valid /\ other.valid
  THEN Num((d.t - other.t) \div HoursPerDay)
  ELSE NaN

\* a > b on numbers: false when either side is NaN
Greater(a, b) == ~a.nan /\ a.n > b

\* format('YYYY-MM-DD'): d.toISOString().split('T')[0], the UTC day of d
\* (given as the day number); toISOString throws RangeError on an Invalid Date
FormatThrows(d) == ~d.valid
FormatDate(d) == [k |-> "string", day |-> d.t \div HoursPerDay]

(***************************************************************************)
(* ReportGenerator.categorizeJiraCliIssues (report-generator.js 73-170)    *)
(***************************************************************************)
\* thresholds, in days
NewWindowDays == 7
AttentionDays == 3
StaleDays == 7

CompletionWords ==
  { <<"d","o","n","e">>, <<"r","e","s","o","l","v","e","d">>,
    <<"c","l","o","s","e","d">>, <<"f","i","x","e","d">> }

InProgressWords ==
  { <<"i","n"," ","p","r","o","g","r","e","s","s">>,
    <<"i","n"," ","r","e","v","i","e","w">>,
    <<"t","e","s","t","i","n","g">>,
    <<"c","o","d","e"," ","r","e","v","i","e","w">> }

EpicLevelTypes ==
  { <<"e","p","i","c">>, <<"i","n","i","t","i","a","t","i","v","e">>,
    <<"t","h","e","m","e">> }

\* (v || '').toLowerCase()
LowerOrEmpty(v) == IF Truthy(v) /\ IsStr(v) THEN ToLowerCase(v.s) ELSE <<>>

\* mutant: the status test alone decides completion
IsCompletedStatusOnly(issue, status) ==
  \E w \in CompletionWords : Includes(status, w)

\* mutant: the resolution alone decides completion
IsCompletedResolutionOnly(issue, status) == Truthy(issue.resolution)

\* issue.resolution && ['done','resolved','closed','fixed'].some(s => status.includes(s))
IsCompleted(issue, status) ==
  /\ Truthy(issue.resolution)
  /\ \E w \in CompletionWords : Includes(status, w)

\* ['in progress','in review','testing','code review'].some(s => status.includes(s))
IsInProgress(status) == \E w \in InProgressWords : Includes(status, w)

\* mutant: substring match instead of equality
IsEpicLevelIncludes(issueType) ==
  \E w \in EpicLevelTypes : Includes(issueType, w)

\* issueType === 'epic' || issueType === 'initiative' || issueType === 'theme'
IsEpicLevel(issueType) == issueType \in EpicLevelTypes

\* mutant: the attention test ignores the resolution
NeedsAttentionAnyResolution(daysSinceUpdate, issue) ==
  Greater(daysSinceUpdate, AttentionDays)

\* daysSinceUpdate > 3 && !issue.resolution
NeedsAttention(daysSinceUpdate, issue) ==
  /\ Greater(daysSinceUpdate, AttentionDays)
  /\ ~Truthy(issue.resolution)

\* mutant: stale from the seventh whole day on
AttentionReasonFromSeven(daysSinceUpdate) ==
  IF ~daysSinceUpdate.nan /\ daysSinceUpdate.n >= StaleDays
  THEN "Stale (no updates for over a week)"
  ELSE "No recent updates"

\* daysSinceUpdate > 7 ? 'Stale (no updates for over a week)' : 'No recent updates'
AttentionReason(daysSinceUpdate) ==
  IF Greater(daysSinceUpdate, StaleDays)
  THEN "Stale (no updates for over a week)"
  ELSE "No recent updates"

\* the object literal normalizedIssue
NormalizedIssue(issue) ==
  [ key |-> issue.key, summary |-> issue.summary, status |-> issue.status,
    assignee |-> issue.assignee, priority |-> issue.priority,
    issuetype |-> Or(issue.issuetype, issue.type),
    created |-> issue.created, updated |-> issue.updated,
    resolution |-> issue.resolution, url |-> issue.url,
    epic |-> issue.epic, parent |-> issue.parent ]

\* { ...normalizedIssue, lastUpdated, reason }
AttentionIssue(n, updated, daysSinceUpdate) ==
  [ key |-> n.key, summary |-> n.summary, status |-> n.status,
    assignee |-> n.assignee, priority |-> n.priority, issuetype |-> n.issuetype,
    created |-> n.created, updated |-> n.updated, resolution |-> n.resolution,
    url |-> n.url, epic |-> n.epic, parent |-> n.parent,
    lastUpdated |-> FormatDate(updated),
    reason |-> AttentionReason(daysSinceUpdate) ]

\* the literal `categorized` before the loop
EmptyCategorized ==
  [ epics |-> [completed |-> <<>>, inProgress |-> <<>>, newIssues |-> <<>>,
               needsAttention |-> <<>>],
    subEpicItems |-> [completed |-> <<>>, inProgress |-> <<>>, newIssues |-> <<>>,
                      needsAttention |-> <<>>, all |-> <<>>],
    completed |-> <<>>, inProgress |-> <<>>, newIssues |-> <<>>,
    needsAttention |-> <<>> ]

\* the lowest free address of heap h
Alloc(h) == CHOOSE a \in DOMAIN h : h[a] = NoObj /\ \A b \in DOMAIN h : h[b] = NoObj => a <= b

\* mutant: the input object itself is pushed, no copy is made
NormalizedPlacementAlias(h, src) == [at |-> src, h |-> h]

\* where normalizedIssue lives: a new object, a copy of the fields of heap h[src]
NormalizedPlacement(h, src) ==
  LET a == Alloc(h) IN [at |-> a, h |-> [h EXCEPT ![a] = NormalizedIssue(h[src])]]

\* mutant: the legacy view is not filled
PushLevelOnly(cat, level, name, a) ==
  [cat EXCEPT ![level][name] = Append(@, a)]

\* array.push on bucket `name` of the level group `level` and of the legacy view
PushBoth(cat, level, name, a) ==
  [cat EXCEPT ![level][name] = Append(@, a), ![name] = Append(@, a)]

RECURSIVE PushAll(_, _, _, _)
\* the pushes of one if / else-if chain, in order
PushAll(cat, level, names, a) ==
  IF names = <<>> THEN cat
  ELSE PushAll(PushBoth(cat, level, Head(names), a), level, Tail(names), a)

\* mutant: the in-progress test is a second `if`, not an `else if`
StatusBucketsIndependent(issue, status) ==
  (IF IsCompleted(issue, status) THEN <<"completed">> ELSE <<>>) \o
  (IF IsInProgress(status) THEN <<"inProgress">> ELSE <<>>)

\* if (completion test) {push to completed} else if (in-progress test) {push to
\* inProgress}: the buckets the issue is pushed to
StatusBuckets(issue, status) ==
  IF IsCompleted(issue, status) THEN <<"completed">>
  ELSE IF IsInProgress(status) THEN <<"inProgress">>
  ELSE <<>>

\* one iteration of issues.forEach; st = [cat, h, threw]
CategorizeIssue(st, src, now, oneWeekAgo, wallClock) ==
  IF st.threw THEN st
  ELSE
    LET issue == st.h[src]
        created == Moment(issue.created, wallClock)
        updated == Moment(issue.updated, wallClock)
        status == LowerOrEmpty(issue.status)
        issueType == LowerOrEmpty(Or(issue.issuetype, issue.type))
        np == NormalizedPlacement(st.h, src)
        n == np.at
        isEpicLevel == IsEpicLevel(issueType)
        target == IF isEpicLevel THEN "epics" ELSE "subEpicItems"
        c1 == IF ~isEpicLevel
              THEN [st.cat EXCEPT !.subEpicItems.all = Append(@, n)]
              ELSE st.cat
        c2 == IF IsAfter(created, oneWeekAgo)
              THEN PushBoth(c1, target, "newIssues", n)
              ELSE c1
        c3 == PushAll(c2, target, StatusBuckets(issue, status), n)
        daysSinceUpdate == DiffDays(now, updated)
    IN
      IF NeedsAttention(daysSinceUpdate, issue)
      THEN
        IF FormatThrows(updated)
        THEN [cat |-> c3, h |-> np.h, threw |-> TRUE]
        ELSE
          LET a == Alloc(np.h)
              h2 == [np.h EXCEPT ![a] =
                       AttentionIssue(np.h[n], updated, daysSinceUpdate)]
          IN [cat |-> PushBoth(c3, target, "needsAttention", a),
              h |-> h2, threw |-> FALSE]
      ELSE [cat |-> c3, h |-> np.h, threw |-> FALSE]

RECURSIVE ForEachIssue(_, _, _, _, _, _)
\* issues.forEach(...) from index i on (s names the state after iteration i,
\* so that it is computed once)
ForEachIssue(st, list, i, now, oneWeekAgo, wallClock) ==
  IF i > Len(list) THEN st
  ELSE CHOOSE r \in
         { ForEachIssue(s, list, i + 1, now, oneWeekAgo, wallClock) :
             s \in {CategorizeIssue(st, list[i], now, oneWeekAgo, wallClock)} } : TRUE

\* return { ...categorized, completedIssues, inProgressIssues, issuesNeedingAttention }
WithAliases(cat) ==
  [ epics |-> cat.epics, subEpicItems |-> cat.subEpicItems,
    completed |-> cat.completed, inProgress |-> cat.inProgress,
    newIssues |-> cat.newIssues, needsAttention |-> cat.needsAttention,
    completedIssues |-> cat.completed, inProgressIssues |-> cat.inProgress,
    issuesNeedingAttention |-> cat.needsAttention ]

\* the whole call on heap h at wall-clock reading wallClock:
\* const now = moment(); const oneWeekAgo = moment().subtract(7, 'days')
CategorizeJiraCliIssues(h, list, wallClock) ==
  LET now == Moment(Undefined, wallClock)
      oneWeekAgo == Subtract(Moment(Undefined, wallClock), NewWindowDays)
      st == ForEachIssue([cat |-> EmptyCategorized, h |-> h, threw |-> FALSE],
                         list, 1, now, oneWeekAgo, wallClock)
  IN [out |-> WithAliases(st.cat), h |-> st.h, threw |-> st.threw]

(***************************************************************************)
(* ReportGenerator.groupIssuesByEpic (report-generator.js 350-403)         *)
(* epicGroups is the Map in insertion order: a sequence of groups, each    *)
(* keyed by its epic.key; relatedIssues and unassociatedIssues hold the    *)
(* addresses of the input objects themselves.                              *)
(***************************************************************************)
sUnknown == Str(<<"U","n","k","n","o","w","n">>)

NotGrouped == [called |-> FALSE, epicsWithIssues |-> <<>>, unassociatedIssues |-> <<>>]

\* issue.epic && issue.epic.key
HasEpic(issue) == issue.epic.k = "object" /\ Truthy(issue.epic.key)

\* mutant: the processed-key set is never consulted
AlreadyProcessedNever(processedIssues, issue) == FALSE

\* processedIssues.has(issue.key)
AlreadyProcessed(processedIssues, issue) == issue.key \in processedIssues

\* the group created by epicGroups.set(epicKey, {...})
NewEpicGroup(issue) ==
  [ epic |-> [ key |-> issue.epic.key, summary |-> issue.epic.summary,
               url |-> issue.epic.url, status |-> sUnknown, priority |-> sUnknown,
               assignee |-> Null, progress |-> Or(issue.epic.progress, Null) ],
    relatedIssues |-> <<>> ]

\* mutant: every issue with an epic opens a group of its own
HasGroupNever(epicGroups, epicKey) == FALSE

\* epicGroups.has(epicKey)
HasGroup(epicGroups, epicKey) ==
  \E g \in 1..Len(epicGroups) : epicGroups[g].epic.key = epicKey

\* the position of epicGroups.get(epicKey)
GroupIndex(epicGroups, epicKey) ==
  CHOOSE g \in 1..Len(epicGroups) : epicGroups[g].epic.key = epicKey

\* one iteration of issues.forEach; st = [epicGroups, unassociatedIssues,
\* processedIssues], h the heap, a the address of the issue
GroupIssue(st, h, a) ==
  LET issue == h[a] IN
  IF AlreadyProcessed(st.processedIssues, issue) THEN st
  ELSE
    LET seen == st.processedIssues \cup {issue.key} IN
    IF HasEpic(issue)
    THEN
      LET epicKey == issue.epic.key
          groups == IF ~HasGroup(st.epicGroups, epicKey)
                    THEN Append(st.epicGroups, NewEpicGroup(issue))
                    ELSE st.epicGroups
          g == GroupIndex(groups, epicKey)
      IN
        IF issue.key = epicKey
        THEN [st EXCEPT !.processedIssues = seen,
                        !.epicGroups =
                          [groups EXCEPT ![g].epic.status = issue.status,
                                         ![g].epic.priority = issue.priority,
                                         ![g].epic.assignee = issue.assignee]]
        ELSE
          IF \E j \in 1..Len(groups[g].relatedIssues) :
               h[groups[g].relatedIssues[j]].key = issue.key
          THEN [st EXCEPT !.processedIssues = seen, !.epicGroups = groups]
          ELSE [st EXCEPT !.processedIssues = seen,
                          !.epicGroups =
                            [groups EXCEPT ![g].relatedIssues = Append(@, a)]]
    ELSE [st EXCEPT !.processedIssues = seen,
                    !.unassociatedIssues = Append(@, a)]

RECURSIVE ForEachGroupIssue(_, _, _, _)
\* issues.forEach(...) from index i on (s names the state after iteration i,
\* so that it is computed once)
ForEachGroupIssue(st, h, list, i) ==
  IF i > Len(list) THEN st
  ELSE CHOOSE r \in
         { ForEachGroupIssue(s, h, list, i + 1) :
             s \in {GroupIssue(st, h, list[i])} } : TRUE

\* the whole call: { epicsWithIssues: Array.from(epicGroups.values()), unassociatedIssues }
GroupIssuesByEpic(h, list) ==
  LET st == ForEachGroupIssue([epicGroups |-> <<>>, unassociatedIssues |-> <<>>,
                               processedIssues |-> {}], h, list, 1)
  IN [called |-> TRUE, epicsWithIssues |-> st.epicGroups,
      unassociatedIssues |-> st.unassociatedIssues]

(***************************************************************************)
(* Inputs: issue records as the tracker client builds them                 *)
(* (executeDirectApiQuery, parseTableOutput)                               *)
(***************************************************************************)
sDone == Str(<<"D","o","n","e">>)
sInProgress == Str(<<"I","n"," ","P","r","o","g","r","e","s","s">>)
sToDo == Str(<<"T","o"," ","D","o">>)
sTestingDone == Str(<<"T","e","s","t","i","n","g"," ","D","o","n","e">>)
sFixed == Str(<<"F","i","x","e","d">>)
sEpic == Str(<<"E","p","i","c">>)
sEpics == Str(<<"E","p","i","c","s">>)
sTheme == Str(<<"T","H","E","M","E">>)
sInitiative == Str(<<"I","n","i","t","i","a","t","i","v","e">>)
sStory == Str(<<"S","t","o","r","y">>)
sMalformed == Str(<<"n","/","a">>)
sEmpty == Str(<<>>)
sNone == Str(<<"N","o","n","e">>)

Key(i) == Str(<<"K", "-", i>>)

MkIssue(key, status, resolution, types, created, updated, epic) ==
  [ key |-> key, summary |-> Str(<<"s">>), status |-> status, assignee |-> Null,
    priority |-> sNone, issuetype |-> types[1], type |-> types[2],
    created |-> created, updated |-> updated, resolution |-> resolution,
    url |-> Str(<<"u">>), epic |-> epic, parent |-> Null, hierarchy |-> Null ]

\* issues that are combined into longer lists
SmallPool ==
  { MkIssue(Key("1"), sDone, sFixed, <<sEpic, Undefined>>,
            DateStr(C0 - 200), DateStr(C0 - 240), Null),
    MkIssue(Key("2"), sInProgress, Null, <<sStory, Undefined>>,
            DateStr(C0 - 167), DateStr(C0 - 95), Null),
    MkIssue(Key("3"), sTestingDone, sFixed, <<sStory, Undefined>>,
            DateStr(C0 - 167), DateStr(C0 - 2), Null),
    MkIssue(Key("4"), sToDo, Null, <<Undefined, sTheme>>,
            DateStr(C0 - 200), DateStr(C0 - 191), Null),
    MkIssue(Key("2"), Undefined, Null, <<sInitiative, Undefined>>,
            sEmpty, sMalformed, Null),
    MkIssue(Key("5"), sDone, Null, <<Undefined, Undefined>>,
            Undefined, DateStr(C0 - 73), Null),
    MkIssue(Key("6"), sTestingDone, Null, <<sEpics, Undefined>>,
            sMalformed, DateStr(C0 - 240), Null),
    MkIssue(Key("7"), sToDo, sFixed, <<sStory, Undefined>>,
            DateStr(C0 - 200), DateStr(C0 - 95), Null) }

\* one-element lists over FullPool, other lengths over SmallPool
Inputs ==
  LET \* every combination of the fields categorize reads
      FullPool ==
        LET Statuses == {Undefined, sDone, sInProgress, sToDo, sTestingDone}
            Resolutions == {Null, sFixed}
            TypePairs == { <<sEpic, Undefined>>, <<sStory, Undefined>>, <<sEpics, Undefined>>,
                           <<Undefined, sTheme>>, <<Undefined, Undefined>> }
            CreatedValues == {Undefined, sMalformed, DateStr(C0 - 167), DateStr(C0 - 200)}
            UpdatedValues == {Undefined, sMalformed, DateStr(C0 - 2), DateStr(C0 - 73),
                              DateStr(C0 - 95), DateStr(C0 - 191), DateStr(C0 - 240)}
        IN { MkIssue(Key("1"), s, r, t, c, u, Null) :
               s \in Statuses, r \in Resolutions, t \in TypePairs,
               c \in CreatedValues, u \in UpdatedValues }
  IN [1..1 -> FullPool] \cup UNION {[1..n -> SmallPool] : n \in (0..MaxIssues) \ {1}}

\* what the caller may pass as a second argument
NowArgs == {Undefined, DateStr(C0)}

HeapSize == IF 3 * MaxIssues > MaxGroupIssues THEN 3 * MaxIssues ELSE MaxGroupIssues
NoCall == [k |-> "none"]

Range(f) == {f[i] : i \in DOMAIN f}

\* the records behind a list of addresses
Deref(h, list) == [i \in 1..Len(list) |-> h[list[i]]]

\* a returned structure with every address replaced by the record it points to
DerefOut(h, out) ==
  [ epics |-> [b \in DOMAIN out.epics |-> Deref(h, out.epics[b])],
    subEpicItems |-> [b \in DOMAIN out.subEpicItems |-> Deref(h, out.subEpicItems[b])],
    completed |-> Deref(h, out.completed),
    inProgress |-> Deref(h, out.inProgress),
    newIssues |-> Deref(h, out.newIssues),
    needsAttention |-> Deref(h, out.needsAttention),
    completedIssues |-> Deref(h, out.completedIssues),
    inProgressIssues |-> Deref(h, out.inProgressIssues),
    issuesNeedingAttention |-> Deref(h, out.issuesNeedingAttention) ]

(***************************************************************************)
(* State machine of a report run                                           *)
(***************************************************************************)
\* nothing summarized and nothing fetched yet
NotCalled == [called |-> FALSE]
NoSummaries ==
  /\ velocityData = <<>>
  /\ velocity = NotCalled
  /\ breakdown = NotCalled
  /\ trends = NotCalled
  /\ response = NotCalled
  /\ fetched = NotCalled

\* no board is selected and no activity is tracked
NoClient ==
  /\ boards = <<>>
  /\ projectReplies = <<>>
  /\ collected = NotCalled
  /\ file = [k |-> "missing"]
  /\ calls = <<>>
  /\ logged = {}

Init ==
  /\ clock = C0
  /\ \E list \in Inputs :
       /\ heap = [a \in 1..HeapSize |-> IF a <= Len(list) THEN list[a] ELSE NoObj]
       /\ issues = [i \in 1..Len(list) |-> i]
  /\ categorized = WithAliases(EmptyCategorized)
  /\ threw = FALSE
  /\ lastCall = NoCall
  /\ grouped = NotGrouped
  /\ NoSummaries
  /\ NoClient

\* the wall clock advances by an hour
Tick ==
  /\ clock < C0 + MaxTicks
  /\ clock' = clock + 1
  /\ UNCHANGED <<heap, issues, categorized, threw, lastCall, grouped>>
  /\ UNCHANGED summaryVars

\* a caller runs categorizeJiraCliIssues(issues, nowArg); the objects of an
\* earlier result are unreachable by then
Categorize(nowArg) ==
  LET h0 == [a \in DOMAIN heap |-> IF a \in Range(issues) THEN heap[a] ELSE NoObj]
  IN \E r \in {CategorizeJiraCliIssues(h0, issues, clock)} :
       /\ heap' = r.h
       /\ categorized' = IF r.threw THEN WithAliases(EmptyCategorized) ELSE r.out
       /\ threw' = r.threw
       /\ lastCall' = [k |-> "call", issues |-> Deref(heap, issues),
                       nowArg |-> nowArg, at |-> clock, threw |-> r.threw,
                       out |-> IF r.threw THEN WithAliases(EmptyCategorized)
                               ELSE DerefOut(r.h, r.out)]
       /\ UNCHANGED <<clock, issues, grouped>>
       /\ UNCHANGED summaryVars

Next ==
  \/ Tick
  \/ \E nowArg \in NowArgs : Categorize(nowArg)

Spec == Init /\ [][Next]_vars

(***************************************************************************)
(* A run that groups a list of issues by epic                              *)
(***************************************************************************)
\* the epic reference extractEpicInfo attaches to an issue
EpicRef(key) ==
  [k |-> "object", key |-> key, summary |-> sEpic, url |-> Str(<<"u">>),
   progress |-> Undefined]

\* an issue as groupIssuesByEpic reads it: key, epic, status, priority, assignee
MkGroupIssue(key, status, epic) ==
  MkIssue(key, status, Null, <<sStory, Undefined>>,
          DateStr(C0 - 200), DateStr(C0 - 2), epic)

GroupInit ==
  LET GroupPool ==
        { MkGroupIssue(Key("1"), sInProgress, Null),
          MkGroupIssue(Key("1"), sInProgress, EpicRef(Key("1"))),
          MkGroupIssue(Key("2"), sDone, Null),
          MkGroupIssue(Key("2"), sDone, EpicRef(Key("1"))),
          MkGroupIssue(Key("2"), sToDo, EpicRef(Key("2"))),
          MkGroupIssue(Key("3"), sToDo, EpicRef(Key("1"))),
          MkGroupIssue(Key("3"), sDone, EpicRef(Key("2"))),
          MkGroupIssue(Key("4"), sToDo, EpicRef(Key("1"))) }
      GroupInputs == UNION {[1..n -> GroupPool] : n \in 0..MaxGroupIssues}
  IN /\ clock = C0
     /\ \E list \in GroupInputs :
          /\ heap = [a \in 1..HeapSize |-> IF a <= Len(list) THEN list[a] ELSE NoObj]
          /\ issues = [i \in 1..Len(list) |-> i]
     /\ categorized = WithAliases(EmptyCategorized)
     /\ threw = FALSE
     /\ lastCall = NoCall
     /\ grouped = NotGrouped
     /\ NoSummaries
     /\ NoClient

\* a caller runs groupIssuesByEpic(issues)
GroupByEpic ==
  /\ ~grouped.called
  /\ grouped' = GroupIssuesByEpic(heap, issues)
  /\ UNCHANGED <<clock, heap, issues, categorized, threw, lastCall>>
  /\ UNCHANGED summaryVars

GroupNext == GroupByEpic

SpecGroup == GroupInit /\ [][GroupNext]_vars

(***************************************************************************)
(* Properties of categorizeJiraCliIssues.  They are stated on lastCall:    *)
(* the input records, the wall-clock reading and the returned structure of *)
(* the latest call, with every address replaced by its record.             *)
(***************************************************************************)
Returned == lastCall.k = "call" /\ ~lastCall.threw

CopiedFields == {"key", "summary", "status", "assignee", "priority", "created",
                 "updated", "resolution", "url", "epic", "parent"}

\* record e carries the fields of input issue x
IsCopyOf(e, x) ==
  /\ \A f \in CopiedFields : e[f] = x[f]
  /\ e.issuetype = (IF Truthy(x.issuetype) THEN x.issuetype ELSE x.type)

\* bucket (a sequence of records) holds a copy of input issue x
Holds(bucket, x) == \E j \in 1..Len(bucket) : IsCopyOf(bucket[j], x)

\* x is in bucket `name` of one of the two level groups
HoldsAtLevel(name, x) ==
  \/ Holds(lastCall.out.epics[name], x)
  \/ Holds(lastCall.out.subEpicItems[name], x)

InputIssues == Range(lastCall.issues)

StatusText(x) == IF IsStr(x.status) THEN ToLowerCase(x.status.s) ELSE <<>>

DoneLike(x) ==
  \/ Includes(StatusText(x), <<"d","o","n","e">>)
  \/ Includes(StatusText(x), <<"r","e","s","o","l","v","e","d">>)
  \/ Includes(StatusText(x), <<"c","l","o","s","e","d">>)
  \/ Includes(StatusText(x), <<"f","i","x","e","d">>)

ProgressLike(x) ==
  \/ Includes(StatusText(x), <<"i","n"," ","p","r","o","g","r","e","s","s">>)
  \/ Includes(StatusText(x), <<"i","n"," ","r","e","v","i","e","w">>)
  \/ Includes(StatusText(x), <<"t","e","s","t","i","n","g">>)
  \/ Includes(StatusText(x), <<"c","o","d","e"," ","r","e","v","i","e","w">>)

Resolved(x) == x.resolution # Null /\ x.resolution # Undefined

\* hours between the call and a well-formed timestamp
HoursSince(v) == lastCall.at - v.date

\* C1: an issue is in `completed` (of its level group and of the legacy view)
\* if and only if its resolution is non-null and its lower-cased status contains
\* "done", "resolved", "closed" or "fixed"; neither condition alone suffices.
C1_CompletedIff ==
  Returned =>
    \A x \in InputIssues :
      /\ HoldsAtLevel("completed", x) <=> (Resolved(x) /\ DoneLike(x))
      /\ Holds(lastCall.out.completed, x) <=> (Resolved(x) /\ DoneLike(x))

\* a call whose input has a resolved issue without a done-like status (left
\* out) next to a resolved issue with a done-like status (put in)
C1_Witness ==
  /\ Returned
  /\ \E x \in InputIssues, y \in InputIssues :
       /\ Resolved(x) /\ ~DoneLike(x) /\ ~Holds(lastCall.out.completed, x)
       /\ Resolved(y) /\ DoneLike(y) /\ Holds(lastCall.out.completed, y)

\* the scenario of C2: status "Done", resolution "Fixed", updated 10 days ago
C2_Scenario(x) ==
  /\ x.status = sDone
  /\ x.resolution = sFixed
  /\ x.updated = DateStr(lastCall.at - 10 * HoursPerDay)

C3_Original ==
  Returned =>
    \A x \in InputIssues :
      Holds(lastCall.out.needsAttention, x) <=>
        /\ IsDateStr(x.updated)
        /\ HoursSince(x.updated) > 3 * HoursPerDay
        /\ ~Resolved(x)

\* C3 amended: an issue is in `needsAttention` (of its level group and of the
\* legacy view) exactly when `updated` is a well-formed date, the number of
\* whole days elapsed since it is greater than 3 (at least 4 x 24 hours have
\* passed) and its resolution is null.
C3_Amended ==
  Returned =>
    \A x \in InputIssues :
      /\ Holds(lastCall.out.needsAttention, x) <=>
           /\ IsDateStr(x.updated)
           /\ HoursSince(x.updated) >= 4 * HoursPerDay
           /\ ~Resolved(x)
      /\ HoldsAtLevel("needsAttention", x) <=> Holds(lastCall.out.needsAttention, x)

\* an unresolved issue updated between 3 and 4 days ago is left out while one
\* updated exactly 4 days ago is put in
C3_Witness ==
  /\ Returned
  /\ \E x \in InputIssues, y \in InputIssues :
       /\ ~Resolved(x) /\ IsDateStr(x.updated)
       /\ HoursSince(x.updated) > 3 * HoursPerDay
       /\ HoursSince(x.updated) < 4 * HoursPerDay
       /\ ~Holds(lastCall.out.needsAttention, x)
       /\ ~Resolved(y) /\ IsDateStr(y.updated)
       /\ HoursSince(y.updated) = 4 * HoursPerDay
       /\ Holds(lastCall.out.needsAttention, y)

\* C4: in every bucket group no object is in both `completed` and `inProgress`;
\* an issue that passes the completion test and the in-progress test is in
\* `completed` only.
C4_CompletedExcludesInProgress ==
  (lastCall.k = "call" /\ ~threw) =>
    /\ \A g \in {"epics", "subEpicItems"} :
         Range(categorized[g].completed) \cap Range(categorized[g].inProgress) = {}
    /\ Range(categorized.completed) \cap Range(categorized.inProgress) = {}
    /\ \A x \in InputIssues :
         (Resolved(x) /\ DoneLike(x) /\ ProgressLike(x)) =>
           /\ Holds(lastCall.out.completed, x) /\ HoldsAtLevel("completed", x)
           /\ ~Holds(lastCall.out.inProgress, x) /\ ~HoldsAtLevel("inProgress", x)

\* an issue passing both tests has been categorized
C4_Witness ==
  /\ Returned
  /\ \E x \in InputIssues :
       /\ Resolved(x) /\ DoneLike(x) /\ ProgressLike(x)
       /\ Holds(lastCall.out.completed, x)

\* created is a well-formed date strictly after now - 7 days
RecentlyCreated(x) ==
  IsDateStr(x.created) /\ x.created.date > lastCall.at - 7 * HoursPerDay

\* C5 as claimed: an issue is in `newIssues` if and only if its created
\* timestamp is strictly after now - 7 days, and an issue in the level-specific
\* `newIssues` is also in the legacy `newIssues`.
C5_Original ==
  Returned =>
    \A x \in InputIssues :
      /\ HoldsAtLevel("newIssues", x) <=> RecentlyCreated(x)
      /\ HoldsAtLevel("newIssues", x) => Holds(lastCall.out.newIssues, x)

\* the part of C5 the code keeps: for issues that carry a created value
\* (well-formed or not) the test is exact, and both views agree for every issue
C5_WhenCreatedPresent ==
  Returned =>
    \A x \in InputIssues :
      /\ Truthy(x.created) => (HoldsAtLevel("newIssues", x) <=> RecentlyCreated(x))
      /\ HoldsAtLevel("newIssues", x) <=> Holds(lastCall.out.newIssues, x)

\* the issue type the code reads: issuetype, else type, lower-cased
TypeText(x) ==
  LET t == IF Truthy(x.issuetype) THEN x.issuetype ELSE x.type
  IN IF Truthy(t) /\ IsStr(t) THEN ToLowerCase(t.s) ELSE <<>>

TopLevel(x) ==
  \/ TypeText(x) = <<"e","p","i","c">>
  \/ TypeText(x) = <<"i","n","i","t","i","a","t","i","v","e">>
  \/ TypeText(x) = <<"t","h","e","m","e">>

SubLevel(x) == ~TopLevel(x)

BucketNames == {"completed", "inProgress", "newIssues", "needsAttention"}

\* C6: an issue goes to the epics group iff its type equals "epic",
\* "initiative" or "theme" ignoring case, else to the sub-level group; the
\* sub-level `all` list is the input list without its top-level issues, one
\* entry per occurrence, in input order.
C6_LevelRouting ==
  Returned =>
    /\ \A x \in InputIssues, b \in BucketNames :
         /\ Holds(lastCall.out.epics[b], x) => TopLevel(x)
         /\ Holds(lastCall.out.subEpicItems[b], x) => ~TopLevel(x)
         /\ Holds(lastCall.out[b], x) =>
              IF TopLevel(x) THEN Holds(lastCall.out.epics[b], x)
              ELSE Holds(lastCall.out.subEpicItems[b], x)
    /\ LET sub == SelectSeq(lastCall.issues, SubLevel)
           all == lastCall.out.subEpicItems.all
       IN /\ Len(all) = Len(sub)
          /\ \A j \in 1..Len(sub) : IsCopyOf(all[j], sub[j])

\* a list with an issue that is top-level through the `type` field and ends in
\* an epics bucket, and a "Epics" issue that is sub-level and listed in `all`
C6_Witness ==
  /\ Returned
  /\ \E x \in InputIssues, y \in InputIssues :
       /\ TopLevel(x) /\ ~Truthy(x.issuetype)
       /\ Holds(lastCall.out.epics.needsAttention, x)
       /\ y.issuetype = sEpics
       /\ Holds(lastCall.out.subEpicItems.all, y)
       /\ Len(lastCall.out.subEpicItems.all) = 1

\* C7 as claimed: two calls with the same issue list and the same supplied
\* `now` return structurally identical output, whatever the wall clock reads.
C7_Original ==
  [][ ( /\ lastCall.k = "call" /\ lastCall'.k = "call"
        /\ lastCall'.issues = lastCall.issues
        /\ lastCall'.nowArg = lastCall.nowArg
        /\ lastCall.nowArg # Undefined )
      => ( /\ lastCall'.out = lastCall.out
           /\ lastCall'.threw = lastCall.threw ) ]_vars

\* the addresses held by the buckets of the structure returned last
BucketAddrs ==
  UNION ( {Range(categorized.epics[b]) : b \in BucketNames} \cup
          {Range(categorized.subEpicItems[b]) : b \in BucketNames \cup {"all"}} \cup
          {Range(categorized[b]) : b \in BucketNames} \cup
          {Range(categorized.completedIssues), Range(categorized.inProgressIssues),
           Range(categorized.issuesNeedingAttention)} )

InputUnchanged == \A i \in 1..Len(issues) : heap[issues[i]] = lastCall.issues[i]

\* C8 as claimed: every record in a bucket is one of the objects of the input
\* list, and the input records are not changed.
C8_Original ==
  (lastCall.k = "call" /\ ~threw) =>
    /\ BucketAddrs \subseteq Range(issues)
    /\ InputUnchanged

NormalizedFields == CopiedFields \cup {"issuetype"}
AttentionFields == NormalizedFields \cup {"lastUpdated", "reason"}

\* C8 amended: categorize does not change the input records, and no record in
\* a bucket is an object of the input list: each is a new object holding a copy
\* of the fields key, summary, status, assignee, priority, issuetype, created,
\* updated, resolution, url, epic, parent of an input issue (plus lastUpdated
\* and reason in needsAttention).
C8_Amended ==
  (lastCall.k = "call" /\ ~threw) =>
    /\ InputUnchanged
    /\ \A a \in BucketAddrs :
         /\ a \notin Range(issues)
         /\ DOMAIN heap[a] \in {NormalizedFields, AttentionFields}
         /\ \E i \in 1..Len(issues) : IsCopyOf(heap[a], heap[issues[i]])

\* a call has filled a completed bucket and a needsAttention bucket
C8_Witness ==
  /\ lastCall.k = "call" /\ ~threw
  /\ categorized.completed # <<>>
  /\ categorized.needsAttention # <<>>

\* C9 as claimed: categorize does not throw; a missing status counts as the
\* empty string; a missing or malformed created / updated counts as an invalid
\* date, not as the current time, so it is neither "new" nor "needs attention".
C9_Original ==
  lastCall.k = "call" =>
    /\ ~lastCall.threw
    /\ \A x \in InputIssues :
         /\ ~Truthy(x.status) =>
              /\ ~Holds(lastCall.out.completed, x)
              /\ ~Holds(lastCall.out.inProgress, x)
         /\ ~IsDateStr(x.created) => ~Holds(lastCall.out.newIssues, x)
         /\ ~IsDateStr(x.updated) => ~Holds(lastCall.out.needsAttention, x)

\* the part of C9 the code keeps: no call throws, a missing status matches no
\* status word, a malformed timestamp is neither new nor stale
C9_NeverThrows ==
  lastCall.k = "call" =>
    /\ ~lastCall.threw
    /\ \A x \in InputIssues :
         /\ ~Truthy(x.status) =>
              /\ ~Holds(lastCall.out.completed, x)
              /\ ~Holds(lastCall.out.inProgress, x)
         /\ (Truthy(x.created) /\ ~IsDateStr(x.created)) =>
              ~Holds(lastCall.out.newIssues, x)
         /\ ~IsDateStr(x.updated) => ~Holds(lastCall.out.needsAttention, x)

(***************************************************************************)
(* Properties of groupIssuesByEpic                                         *)
(***************************************************************************)
RECURSIVE RelatedOfAll(_)
\* the relatedIssues of all groups, one after the other
RelatedOfAll(groups) ==
  IF groups = <<>> THEN <<>>
  ELSE Head(groups).relatedIssues \o RelatedOfAll(Tail(groups))

\* every issue listed in the output: all relatedIssues, then unassociatedIssues
Listed == RelatedOfAll(grouped.epicsWithIssues) \o grouped.unassociatedIssues

\* C10: in the output of groupIssuesByEpic every issue key is listed at most
\* once over all relatedIssues and unassociatedIssues together, also when the
\* input repeats keys.
C10_KeyListedOnce ==
  grouped.called =>
    \A i \in 1..Len(Listed), j \in 1..Len(Listed) :
      i # j => heap[Listed[i]].key # heap[Listed[j]].key

\* the input repeats a key, once under an epic and once without, or under two
\* different epics, and the call has listed issues in a group and outside
C10_Witness ==
  /\ grouped.called
  /\ \E i \in 1..Len(issues), j \in 1..Len(issues) :
       /\ i < j
       /\ heap[issues[i]].key = heap[issues[j]].key
       /\ heap[issues[i]].epic # heap[issues[j]].epic
  /\ RelatedOfAll(grouped.epicsWithIssues) # <<>>
  /\ grouped.unassociatedIssues # <<>>

\* the positions of the input list
Positions == 1..Len(issues)
IssueAt(i) == heap[issues[i]]

\* the positions of the children of epic key e: parent reference e, other key
ChildrenOf(e) ==
  {i \in Positions : HasEpic(IssueAt(i)) /\ IssueAt(i).epic.key = e /\ IssueAt(i).key # e}

\* the list holds three issues (of three keys) under epic K-1 and the issue K-1
C11_Scenario ==
  /\ Cardinality(ChildrenOf(Key("1"))) = 3
  /\ Cardinality({IssueAt(i).key : i \in ChildrenOf(Key("1"))}) = 3
  /\ \E i \in Positions : IssueAt(i).key = Key("1")

\* the groups whose epic key is e
GroupsOf(e) ==
  {g \in 1..Len(grouped.epicsWithIssues) : grouped.epicsWithIssues[g].epic.key = e}

\* C11 as claimed: with three issues under epic E-1 and the issue E-1 itself in
\* the list, there is exactly one group for E-1, it has exactly 3 relatedIssues,
\* its status, priority and assignee are those of the E-1 issue, and the E-1
\* issue is not a related issue.
C11_Original ==
  (grouped.called /\ C11_Scenario) =>
    /\ Cardinality(GroupsOf(Key("1"))) = 1
    /\ \A g \in GroupsOf(Key("1")) :
         LET grp == grouped.epicsWithIssues[g]
             e == IssueAt(CHOOSE i \in Positions : IssueAt(i).key = Key("1")
                            /\ \A j \in Positions : IssueAt(j).key = Key("1") => i <= j)
         IN /\ Len(grp.relatedIssues) = 3
            /\ \A j \in 1..Len(grp.relatedIssues) : heap[grp.relatedIssues[j]].key # Key("1")
            /\ grp.epic.status = e.status
            /\ grp.epic.priority = e.priority
            /\ grp.epic.assignee = e.assignee

\* the part of C11 the code keeps: one group with the three children; the
\* metadata is taken from the E-1 issue only when that issue names itself as
\* its epic, otherwise the group keeps "Unknown" and E-1 is unassociated
C11_OnlyWhenSelfReferenced ==
  (grouped.called /\ C11_Scenario) =>
    /\ Cardinality(GroupsOf(Key("1"))) = 1
    /\ \A g \in GroupsOf(Key("1")) :
         LET grp == grouped.epicsWithIssues[g]
             i1 == CHOOSE i \in Positions : IssueAt(i).key = Key("1")
                     /\ \A j \in Positions : IssueAt(j).key = Key("1") => i <= j
         IN /\ Len(grp.relatedIssues) = 3
            /\ IF HasEpic(IssueAt(i1))
               THEN grp.epic.status = IssueAt(i1).status
               ELSE /\ grp.epic.status = sUnknown
                    /\ \E j \in 1..Len(grouped.unassociatedIssues) :
                         grouped.unassociatedIssues[j] = issues[i1]

\* position i holds the first record of its key
FirstOfKey(i) == \A j \in Positions : IssueAt(j).key = IssueAt(i).key => i <= j

\* the positions whose objects are listed in relatedIssues of group g
RelatedPositions(g) ==
  {i \in Positions : \E j \in 1..Len(grouped.epicsWithIssues[g].relatedIssues) :
                        grouped.epicsWithIssues[g].relatedIssues[j] = issues[i]}

UnassociatedPositions ==
  {i \in Positions : \E j \in 1..Len(grouped.unassociatedIssues) :
                        grouped.unassociatedIssues[j] = issues[i]}

\* C12: when records share a key only the first of them is processed: it alone
\* is listed, in the place its own parent reference decides; later records of
\* the key are dropped and the call returns normally.
C12_FirstOccurrenceWins ==
  grouped.called =>
    /\ \A g \in 1..Len(grouped.epicsWithIssues) :
         RelatedPositions(g) =
           {i \in Positions : /\ FirstOfKey(i) /\ HasEpic(IssueAt(i))
                              /\ IssueAt(i).epic.key = grouped.epicsWithIssues[g].epic.key
                              /\ IssueAt(i).key # IssueAt(i).epic.key}
    /\ UnassociatedPositions = {i \in Positions : FirstOfKey(i) /\ ~HasEpic(IssueAt(i))}
    /\ \A i \in Positions :
         (FirstOfKey(i) /\ HasEpic(IssueAt(i))) => GroupsOf(IssueAt(i).epic.key) # {}

\* a key occurs first under an epic and later without one; only the first
\* record is listed
C12_Witness ==
  /\ grouped.called
  /\ \E i \in Positions, j \in Positions :
       /\ i < j
       /\ IssueAt(i).key = IssueAt(j).key
       /\ HasEpic(IssueAt(i)) /\ ~HasEpic(IssueAt(j))
       /\ IssueAt(i).key # IssueAt(i).epic.key
  /\ grouped.unassociatedIssues = <<>>
  /\ RelatedOfAll(grouped.epicsWithIssues) # <<>>

(***************************************************************************)
(* JavaScript numbers are IEEE-754 binary64.  The velocity trend divides   *)
(* and multiplies them (report-generator.js 200-205), so both operations   *)
(* are computed here with their rounding: a non-negative finite number is  *)
(* [m, e], the value m * 2^e with a mantissa m of MantissaBits bits (m = 0 *)
(* for zero).  Mantissas and the intermediate exact products and quotients *)
(* are naturals in NumLimbs limbs of LimbBits bits, lowest limb first.     *)
(***************************************************************************)
LimbBits == 15
LimbBase == 2^LimbBits
NumLimbs == 8
MantissaBits == 53
\* an integer dividend is scaled by LimbBase^ScaleLimbs before it is divided
ScaleLimbs == 5

Limbs == 1..NumLimbs
BigZero == [i \in Limbs |-> 0]
LimbAt(x, i) == IF i \in Limbs THEN x[i] ELSE 0
BigBit(x, i) == (LimbAt(x, i \div LimbBits + 1) \div 2^(i % LimbBits)) % 2

\* the number of bits of x
BigBitLen(x) ==
  LET TopLimb == CHOOSE i \in Limbs : x[i] # 0 /\ \A j \in (i+1)..NumLimbs : x[j] = 0
      LimbBitLen(k) == CHOOSE n \in 1..LimbBits : 2^n > k /\ 2^(n-1) <= k
  IN IF x = BigZero THEN 0
     ELSE CHOOSE n \in {(t - 1) * LimbBits + LimbBitLen(x[t]) : t \in {TopLimb}} : TRUE

BigAdd(x, y) ==
  LET carry[i \in 0..NumLimbs] ==
        IF i = 0 THEN 0 ELSE (x[i] + y[i] + carry[i-1]) \div LimbBase
  IN [i \in Limbs |-> (x[i] + y[i] + carry[i-1]) % LimbBase]

\* x * k for a natural k below LimbBase
BigMulSmall(x, k) ==
  LET carry[i \in 0..NumLimbs] ==
        IF i = 0 THEN 0 ELSE (x[i] * k + carry[i-1]) \div LimbBase
  IN [i \in Limbs |-> (x[i] * k + carry[i-1]) % LimbBase]

\* x * y, the sum of the rows x * y[i] * LimbBase^(i-1)
BigMul(x, y) ==
  LET ShiftLimbs(z, n) == [i \in Limbs |-> LimbAt(z, i - n)]
      RECURSIVE RowsFrom(_)
      RowsFrom(i) ==
        IF i > NumLimbs THEN BigZero
        ELSE IF y[i] = 0 THEN RowsFrom(i + 1)
        ELSE CHOOSE r \in {BigAdd(row, rest) :
                             row \in {ShiftLimbs(BigMulSmall(x, y[i]), i - 1)},
                             rest \in {RowsFrom(i + 1)}} : TRUE
  IN RowsFrom(1)

\* quotient and remainder of x by a natural k, 0 < k < LimbBase
BigDivSmall(x, k) ==
  LET rem[i \in 1..(NumLimbs+1)] ==
        IF i = NumLimbs + 1 THEN 0 ELSE (rem[i+1] * LimbBase + x[i]) % k
  IN [q |-> [i \in Limbs |-> (rem[i+1] * LimbBase + x[i]) \div k], r |-> rem[1]]

\* floor(x / 2^n) and x * 2^n
BigShr(x, n) ==
  LET a == n \div LimbBits
      b == n % LimbBits
  IN [j \in Limbs |-> LimbAt(x, j + a) \div 2^b
                      + (LimbAt(x, j + a + 1) % 2^b) * 2^(LimbBits - b)]
BigShl(x, n) ==
  LET a == n \div LimbBits
      b == n % LimbBits
  IN [j \in Limbs |-> (LimbAt(x, j - a) % 2^(LimbBits - b)) * 2^b
                      + LimbAt(x, j - a - 1) \div 2^(LimbBits - b)]

DoubleZero == [m |-> BigZero, e |-> 0]

\* the double nearest to (x + f) * 2^e, ties to even, where 0 <= f < 1 and
\* sticky says that f is not zero.  With n = BigBitLen(x) - MantissaBits > 0
\* and q = floor(x / 2^n), q is rounded by the bits of x below 2^n, and a
\* mantissa that reaches 2^MantissaBits is halved.
RoundToDouble(x, sticky, e) ==
  LET RoundedUp(n, q) ==
        IF BigBit(x, n - 1) = 1
           /\ (sticky \/ BigBit(q, 0) = 1 \/ BigShl(BigShr(x, n - 1), n - 1) # x)
        THEN BigAdd(q, [i \in Limbs |-> IF i = 1 THEN 1 ELSE 0]) ELSE q
      Renormalized(r, e2) ==
        IF BigBitLen(r) > MantissaBits THEN [m |-> BigShr(r, 1), e |-> e2 + 1]
        ELSE [m |-> r, e |-> e2]
      RoundAt(n) ==
        IF n <= 0 THEN [m |-> BigShl(x, 0 - n), e |-> e + n]
        ELSE CHOOSE d \in {Renormalized(r, e + n) :
                             r \in {RoundedUp(n, q) : q \in {BigShr(x, n)}}} : TRUE
  IN IF x = BigZero THEN DoubleZero
     ELSE CHOOSE d \in {RoundAt(n) : n \in {BigBitLen(x) - MantissaBits}} : TRUE

\* a / b of two numbers holding the naturals a < LimbBase and 0 < b < LimbBase
DoubleDiv(a, b) ==
  CHOOSE r \in {RoundToDouble(d.q, d.r # 0, 0 - ScaleLimbs * LimbBits) :
                  d \in {BigDivSmall([i \in Limbs |-> IF i = ScaleLimbs + 1 THEN a ELSE 0],
                                     b)}} : TRUE

\* x * y
DoubleMul(x, y) ==
  IF x = DoubleZero \/ y = DoubleZero THEN DoubleZero
  ELSE CHOOSE r \in {RoundToDouble(p, FALSE, x.e + y.e) : p \in {BigMul(x.m, y.m)}} : TRUE

\* x < y
DoubleLess(x, y) ==
  IF y = DoubleZero THEN FALSE
  ELSE IF x = DoubleZero THEN TRUE
  ELSE \/ x.e < y.e
       \/ /\ x.e = y.e
          /\ \E i \in Limbs : x.m[i] < y.m[i] /\ \A j \in (i+1)..NumLimbs : x.m[j] = y.m[j]

\* the literals 1.1 and 0.9: the doubles nearest to 11/10 and 9/10
IncreaseFactor == DoubleDiv(11, 10)
DecreaseFactor == DoubleDiv(9, 10)

\* the number 10 of `* 10` and `/ 10`
Ten == DoubleDiv(10, 1)

\* Math.round(x) = floor(x + 1/2) of a number below 2^30
MathRound(x) ==
  IF x = DoubleZero THEN 0
  ELSE CHOOSE k \in {q[1] + q[2] * LimbBase + BigBit(x.m, 0 - x.e - 1) :
                       q \in {BigShr(x.m, 0 - x.e)}} : TRUE

(***************************************************************************)
(* ReportGenerator.calculateVelocityMetrics (report-generator.js 172-220)  *)
(* A sample is [sprint, weekEnding, completedCount, storyPoints] with      *)
(* natural counts; an array is Arr(items).                                 *)
(***************************************************************************)
Arr(items) == [k |-> "object", items |-> items]

RecentCount == 2
sPeriod == Str(<<"P", "e", "r", "i", "o", "d">>)

RECURSIVE SumOf(_)
SumOf(values) == IF values = <<>> THEN 0 ELSE Head(values) + SumOf(Tail(values))

NoVelocityDataStable ==
  [average |-> DoubleZero, unit |-> "items", trend |-> "Stable", data |-> <<>>]

\* lines 174-179
NoVelocityData ==
  [average |-> DoubleZero, unit |-> "items", trend |-> "No data available", data |-> <<>>]

\* line 183
HasStoryPoints(items) ==
  \E i \in 1..Len(items) : items[i].storyPoints # 0 /\ items[i].storyPoints > 0

SelectedValuePerSample(hasStoryPoints, item) ==
  IF item.storyPoints > 0 THEN item.storyPoints ELSE item.completedCount

\* lines 187-189 and 211
SelectedValue(hasStoryPoints, item) ==
  IF hasStoryPoints THEN item.storyPoints ELSE item.completedCount

\* line 191
Average(values) ==
  DoubleDiv(MathRound(DoubleMul(DoubleDiv(SumOf(values), Len(values)), Ten)), 10)

\* lines 203-204
TrendOf(recentAvg, olderAvg) ==
  IF DoubleLess(DoubleMul(olderAvg, IncreaseFactor), recentAvg) THEN "Increasing"
  ELSE IF DoubleLess(recentAvg, DoubleMul(olderAvg, DecreaseFactor)) THEN "Decreasing"
  ELSE "Stable"

\* lines 194-207
Trend(values) ==
  IF Len(values) >= 2
  THEN LET n == Len(values)
           recent == SubSeq(values, n - RecentCount + 1, n)
           older == SubSeq(values, 1, n - RecentCount)
       IN IF Len(recent) >= 2 /\ Len(older) >= 1
          THEN CHOOSE t \in {TrendOf(recentAvg, olderAvg) :
                               recentAvg \in {DoubleDiv(SumOf(recent), Len(recent))},
                               olderAvg \in {DoubleDiv(SumOf(older), Len(older))}} : TRUE
          ELSE "Stable"
  ELSE "Stable"

CalculateVelocityMetrics(data) ==
  IF ~Truthy(data) \/ Len(data.items) = 0 THEN NoVelocityData
  ELSE LET items == data.items
           hasStoryPoints == HasStoryPoints(items)
           values == [i \in 1..Len(items) |-> SelectedValue(hasStoryPoints, items[i])]
       IN [average |-> Average(values),
           unit |-> IF hasStoryPoints THEN "story points" ELSE "items",
           trend |-> Trend(values),
           data |-> [i \in 1..Len(items) |->
                       [period |-> Or(Or(items[i].sprint, items[i].weekEnding), sPeriod),
                        value |-> SelectedValue(hasStoryPoints, items[i])]]]

(***************************************************************************)
(* A run that computes the velocity of a list of weekly samples            *)
(* (jira-cli-client getVelocityData builds them, part_012 886-892)         *)
(***************************************************************************)
\* longest list of samples, largest completedCount and storyPoints of the
\* short lists
MaxSamples == 5
MaxCount == 3
MaxPoints == 2

Sample(completedCount, storyPoints) ==
  [sprint |-> Undefined, weekEnding |-> Str(<<"w">>),
   completedCount |-> completedCount, storyPoints |-> storyPoints]

\* short lists of small samples, long lists of larger weekly throughputs
VelocityInputs ==
  LET SamplePool == {Sample(c, p) : c \in 0..MaxCount, p \in 0..MaxPoints}
      LongPool == {Sample(c, 0) : c \in {7, 8, 9, 20}}
  IN {Undefined}
     \cup {Arr(l) : l \in UNION {[1..n -> SamplePool] : n \in 0..(RecentCount + 1)}}
     \cup {Arr(l) : l \in UNION {[1..n -> LongPool] : n \in (RecentCount + 2)..MaxSamples}}

\* no report run is under way
NoReport ==
  /\ clock = C0
  /\ heap = [a \in 1..HeapSize |-> NoObj]
  /\ issues = <<>>
  /\ categorized = WithAliases(EmptyCategorized)
  /\ threw = FALSE
  /\ lastCall = NoCall
  /\ grouped = NotGrouped

reportVars == <<clock, heap, issues, categorized, threw, lastCall, grouped>>

VelocityInit ==
  /\ NoReport
  /\ velocityData \in VelocityInputs
  /\ velocity = NotCalled
  /\ breakdown = NotCalled
  /\ trends = NotCalled
  /\ response = NotCalled
  /\ fetched = NotCalled
  /\ NoClient

\* a report calls calculateVelocityMetrics(velocityData)
CalculateVelocity ==
  /\ ~velocity.called
  /\ velocity' = [called |-> TRUE, out |-> CalculateVelocityMetrics(velocityData)]
  /\ UNCHANGED reportVars
  /\ UNCHANGED <<velocityData, breakdown, trends, response, fetched>>
  /\ UNCHANGED clientVars

VelocityNext == CalculateVelocity

SpecVelocity == VelocityInit /\ [][VelocityNext]_vars

(***************************************************************************)
(* Properties of calculateVelocityMetrics                                  *)
(***************************************************************************)
\* the samples of the call, <<>> when the argument is absent
Samples == IF velocityData = Undefined THEN <<>> ELSE velocityData.items
AnyStoryPoints == \E i \in 1..Len(Samples) : Samples[i].storyPoints > 0
\* the metric of sample i under the unit of the whole list
Metric(i) ==
  IF AnyStoryPoints THEN Samples[i].storyPoints ELSE Samples[i].completedCount
RECURSIVE MetricSum(_, _)
MetricSum(from, to) == IF from > to THEN 0 ELSE Metric(from) + MetricSum(from + 1, to)

\* C13: on an empty or absent sample list the result is exactly
\* {average: 0, unit: "items", trend: "No data available", data: []}; on every
\* non-empty list the trend is "Increasing", "Decreasing" or "Stable".
C13_EmptyIsSentinel ==
  velocity.called =>
    IF Samples = <<>>
    THEN velocity.out = [average |-> DoubleZero, unit |-> "items",
                         trend |-> "No data available", data |-> <<>>]
    ELSE velocity.out.trend \in {"Increasing", "Decreasing", "Stable"}

\* the call was made on an empty array
C13_Witness ==
  /\ velocity.called
  /\ velocityData # Undefined
  /\ velocityData.items = <<>>
  /\ velocity.out.trend = "No data available"

\* C14: the unit is "story points" iff some sample has storyPoints > 0, and
\* then every data value and the average are taken from storyPoints, also for
\* the samples whose storyPoints is 0; otherwise the unit is "items" and every
\* value is the completedCount.  The average is the mean rounded to one decimal.
C14_UnitIsGlobal ==
  (velocity.called /\ Samples # <<>>) =>
    LET n == Len(Samples)
    IN /\ velocity.out.unit = IF AnyStoryPoints THEN "story points" ELSE "items"
       /\ Len(velocity.out.data) = n
       /\ \A i \in 1..n : velocity.out.data[i].value = Metric(i)
       /\ velocity.out.average = DoubleDiv((20 * MetricSum(1, n) + n) \div (2 * n), 10)

\* a list mixes a sample with story points and a sample that completed issues
\* but has 0 story points
C14_Witness ==
  /\ velocity.called
  /\ \E i \in 1..Len(Samples), j \in 1..Len(Samples) :
       /\ Samples[i].storyPoints > 0
       /\ Samples[j].storyPoints = 0 /\ Samples[j].completedCount > 0
       /\ velocity.out.data[j].value = 0
  /\ velocity.out.unit = "story points"

\* C15 as claimed: with at least 3 samples the trend is "Increasing" iff the
\* mean of the last 2 values exceeds 1.1 times the mean of the earlier values,
\* "Decreasing" iff it is below 0.9 times that mean, else "Stable"; with 1 or 2
\* samples it is "Stable".  (recent mean = r / 2, older mean = o / (n - 2).)
C15_Original ==
  (velocity.called /\ Samples # <<>>) =>
    LET n == Len(Samples)
        r == MetricSum(n - 1, n)
        o == MetricSum(1, n - 2)
    IN velocity.out.trend =
         IF n < 3 THEN "Stable"
         ELSE IF 10 * r * (n - 2) > 11 * 2 * o THEN "Increasing"
         ELSE IF 10 * r * (n - 2) < 9 * 2 * o THEN "Decreasing"
         ELSE "Stable"

\* the part of C15 the code keeps: the rule holds whenever the recent mean is
\* not exactly 1.1 or 0.9 times the older mean; on those two thresholds the
\* rounding of the division and of the product decides
C15_OffThreshold ==
  (velocity.called /\ Samples # <<>>) =>
    LET n == Len(Samples)
        r == MetricSum(n - 1, n)
        o == MetricSum(1, n - 2)
    IN (n >= 3 /\ 10 * r * (n - 2) # 11 * 2 * o /\ 10 * r * (n - 2) # 9 * 2 * o) =>
         velocity.out.trend =
           IF 10 * r * (n - 2) > 11 * 2 * o THEN "Increasing"
           ELSE IF 10 * r * (n - 2) < 9 * 2 * o THEN "Decreasing"
           ELSE "Stable"

(***************************************************************************)
(* ReportGenerator.calculateWorkBreakdown (report-generator.js 700-712)    *)
(***************************************************************************)
Hundred == DoubleDiv(100, 1)

\* mutant: the percentage is truncated, not rounded
PercentageTruncated(count, total) == (100 * count) \div total

\* Math.round((count / total) * 100)
Percentage(count, total) == MathRound(DoubleMul(DoubleDiv(count, total), Hundred))

CalculateWorkBreakdown(cat) ==
  LET total == Len(cat.completedIssues) + Len(cat.inProgressIssues)
               + Len(cat.issuesNeedingAttention)
  IN IF total = 0
     THEN [completedPercentage |-> 0, inProgressPercentage |-> 0,
           attentionPercentage |-> 0]
     ELSE [completedPercentage |-> Percentage(Len(cat.completedIssues), total),
           inProgressPercentage |-> Percentage(Len(cat.inProgressIssues), total),
           attentionPercentage |-> Percentage(Len(cat.issuesNeedingAttention), total)]

(***************************************************************************)
(* ReportGenerator.generateSubEpicTrendAnalysis (report-generator.js       *)
(* 222-287).  byType and byStatus are objects in insertion order: sequences *)
(* of entries keyed by type and by status.                                 *)
(***************************************************************************)
\* mutant: only the first item of a type is tallied
TallyTypeFirstOnly(byType, item) ==
  LET type == Or(item.issuetype, sUnknown)
  IN IF \E j \in 1..Len(byType) : byType[j].type = type THEN byType
     ELSE Append(byType, [type |-> type, total |-> 1, completed |-> 0, inProgress |-> 0])

\* lines 233-245, for one item
TallyType(byType, item) ==
  LET type == Or(item.issuetype, sUnknown)
      entries == IF \E j \in 1..Len(byType) : byType[j].type = type THEN byType
                 ELSE Append(byType, [type |-> type, total |-> 0, completed |-> 0,
                                      inProgress |-> 0])
      i == CHOOSE j \in 1..Len(entries) : entries[j].type = type
      resolved == Truthy(item.resolution)
      active == ~resolved /\ IsInProgress(LowerOrEmpty(item.status))
  IN [entries EXCEPT ![i].total = @ + 1,
                     ![i].completed = IF resolved THEN @ + 1 ELSE @,
                     ![i].inProgress = IF active THEN @ + 1 ELSE @]

RECURSIVE TallyTypes(_, _, _, _)
TallyTypes(byType, h, all, i) ==
  IF i > Len(all) THEN byType
  ELSE CHOOSE r \in {TallyTypes(b, h, all, i + 1) :
                       b \in {TallyType(byType, h[all[i]])}} : TRUE

\* lines 249-250, for one item
TallyStatus(byStatus, item) ==
  LET status == Or(item.status, sUnknown)
  IN IF \E j \in 1..Len(byStatus) : byStatus[j].status = status
     THEN [byStatus EXCEPT
             ![CHOOSE j \in 1..Len(byStatus) : byStatus[j].status = status].count = @ + 1]
     ELSE Append(byStatus, [status |-> status, count |-> 0 + 1])

RECURSIVE TallyStatuses(_, _, _, _)
TallyStatuses(byStatus, h, all, i) ==
  IF i > Len(all) THEN byStatus
  ELSE CHOOSE r \in {TallyStatuses(b, h, all, i + 1) :
                       b \in {TallyStatus(byStatus, h[all[i]])}} : TRUE

\* lines 253-257
CompletionRate(subEpicItems) ==
  IF Len(subEpicItems.all) > 0
  THEN Percentage(Len(subEpicItems.completed), Len(subEpicItems.all))
  ELSE 0

\* lines 260-266; n || 0 for a number n
WeeklyMetrics(data) ==
  LET NumberOrZero(n) == IF n # 0 THEN n ELSE 0
  IN IF Truthy(data) /\ Len(data.items) > 0
     THEN [i \in 1..Len(data.items) |->
             [period |-> Or(Or(data.items[i].weekEnding, data.items[i].sprint), sPeriod),
              completed |-> NumberOrZero(data.items[i].completedCount),
              storyPoints |-> NumberOrZero(data.items[i].storyPoints)]]
     ELSE <<>>

\* mutant: the entries are left in insertion order
Unsorted(entries) == entries

\* Array.prototype.sort((a, b) => b.total - a.total): stable, greatest total first
RECURSIVE SortByTotal(_)
SortByTotal(entries) ==
  IF entries = <<>> THEN <<>>
  ELSE LET i == CHOOSE i \in 1..Len(entries) :
                  /\ \A j \in 1..Len(entries) : entries[j].total <= entries[i].total
                  /\ \A j \in 1..(i - 1) : entries[j].total < entries[i].total
       IN <<entries[i]>>
          \o SortByTotal(SubSeq(entries, 1, i - 1) \o SubSeq(entries, i + 1, Len(entries)))

TopCount == 3

\* lines 269-277
TopIssueTypes(byType) ==
  LET sorted == SortByTotal(byType)
      top == SubSeq(sorted, 1, IF Len(sorted) < TopCount THEN Len(sorted) ELSE TopCount)
  IN [i \in 1..Len(top) |->
        [type |-> top[i].type, total |-> top[i].total, completed |-> top[i].completed,
         completionRate |-> IF top[i].total > 0
                            THEN Percentage(top[i].completed, top[i].total) ELSE 0]]

GenerateSubEpicTrendAnalysis(h, subEpicItems, data) ==
  CHOOSE r \in
    { [totalItems |-> Len(subEpicItems.all),
       byType |-> byType,
       byStatus |-> TallyStatuses(<<>>, h, subEpicItems.all, 1),
       completionRate |-> CompletionRate(subEpicItems),
       weeklyMetrics |-> WeeklyMetrics(data),
       summary |-> [topTypes |-> TopIssueTypes(byType),
                    activeItems |-> Len(subEpicItems.inProgress),
                    newThisWeek |-> Len(subEpicItems.newIssues),
                    needingAttention |-> Len(subEpicItems.needsAttention)]] :
        byType \in {TallyTypes(<<>>, h, subEpicItems.all, 1)} } : TRUE

(***************************************************************************)
(* A run of generateGoogleDocsReport (report-generator.js 576-636):        *)
(* categorize, velocity, trend analysis and work breakdown of one list     *)
(***************************************************************************)
\* the longest runs of completed, active and stale stories in a long list
MaxDone == 23
MaxActive == 17
MaxStale == 1

\* longest list of sub-level issues of several types
MaxTyped == 4

\* long lists of stories, short lists over SmallPool, and lists of sub-level
\* issues of four types (one of them without a type) and four statuses (one
\* of them missing)
ReportInputs ==
  LET \* d completed stories, then p active ones, then a stale ones
      StoryList(d, p, a) ==
        LET DoneStory(i) ==
              MkIssue(Key(ToString(i)), sDone, sFixed, <<sStory, Undefined>>,
                      DateStr(C0 - 200), DateStr(C0 - 2), Null)
            ActiveStory(i) ==
              MkIssue(Key(ToString(i)), sInProgress, Null, <<sStory, Undefined>>,
                      DateStr(C0 - 200), DateStr(C0 - 2), Null)
            StaleStory(i) ==
              MkIssue(Key(ToString(i)), sToDo, Null, <<sStory, Undefined>>,
                      DateStr(C0 - 200), DateStr(C0 - 191), Null)
        IN [i \in 1..(d + p + a) |->
              IF i <= d THEN DoneStory(i)
              ELSE IF i <= d + p THEN ActiveStory(i) ELSE StaleStory(i)]
  IN LET Typed(key, status, resolution, types) ==
           MkIssue(key, status, resolution, types, DateStr(C0 - 200), DateStr(C0 - 2), Null)
         TypedPool ==
           { Typed(Key("1"), sDone, sFixed, <<sStory, Undefined>>),
             Typed(Key("2"), Undefined, Null, <<Str(<<"B","u","g">>), Undefined>>),
             Typed(Key("3"), sInProgress, Null, <<Undefined, Str(<<"T","a","s","k">>)>>),
             Typed(Key("4"), sToDo, Null, <<Undefined, Undefined>>) }
     IN {StoryList(d, p, a) : d \in 0..MaxDone, p \in 0..MaxActive, a \in 0..MaxStale}
        \cup UNION {[1..n -> SmallPool] : n \in 0..MaxIssues}
        \cup UNION {[1..n -> TypedPool] : n \in 1..MaxTyped}

ReportInit ==
  LET ReportVelocityInputs ==
        {Undefined, Arr(<<Sample(MaxCount, 0), Sample(0, MaxPoints)>>)}
  IN /\ clock = C0
     /\ \E list \in ReportInputs :
          /\ heap = [a \in 1..(3 * Len(list)) |-> IF a <= Len(list) THEN list[a] ELSE NoObj]
          /\ issues = [i \in 1..Len(list) |-> i]
     /\ categorized = WithAliases(EmptyCategorized)
     /\ threw = FALSE
     /\ lastCall = NoCall
     /\ grouped = NotGrouped
     /\ velocityData \in ReportVelocityInputs
     /\ velocity = NotCalled
     /\ breakdown = NotCalled
     /\ trends = NotCalled
     /\ response = NotCalled
     /\ fetched = NotCalled
     /\ NoClient

\* generateGoogleDocsReport(issues, velocityData, ...): an exception of
\* categorizeJiraCliIssues ends the run before anything else is computed
GenerateReport ==
  /\ ~trends.called /\ ~threw
  /\ \E r \in {CategorizeJiraCliIssues(heap, issues, clock)} :
       /\ heap' = r.h
       /\ threw' = r.threw
       /\ categorized' = IF r.threw THEN categorized ELSE r.out
       /\ velocity' = IF r.threw THEN velocity
                      ELSE [called |-> TRUE, out |-> CalculateVelocityMetrics(velocityData)]
       /\ trends' = IF r.threw THEN trends
                    ELSE [called |-> TRUE,
                          out |-> GenerateSubEpicTrendAnalysis(r.h, r.out.subEpicItems,
                                                               velocityData)]
       /\ breakdown' = IF r.threw THEN breakdown
                       ELSE [called |-> TRUE, out |-> CalculateWorkBreakdown(r.out)]
  /\ UNCHANGED <<clock, issues, lastCall, grouped, velocityData, response, fetched>>
  /\ UNCHANGED clientVars

ReportNext == GenerateReport

SpecReport == ReportInit /\ [][ReportNext]_vars

(***************************************************************************)
(* Properties of calculateWorkBreakdown and generateSubEpicTrendAnalysis   *)
(***************************************************************************)
\* round(100 * count / total), halves upwards
RoundedPercent(count, total) == (200 * count + total) \div (2 * total)

BreakdownTotal ==
  Len(categorized.completed) + Len(categorized.inProgress) + Len(categorized.needsAttention)

\* C16 as claimed: each percentage is round(100 * bucket size / sum of the three
\* bucket sizes), all three are 0 when that sum is 0, and each is an integer
\* in [0,100].
C16_Original ==
  breakdown.called =>
    /\ breakdown.out.completedPercentage =
         IF BreakdownTotal = 0 THEN 0
         ELSE RoundedPercent(Len(categorized.completed), BreakdownTotal)
    /\ breakdown.out.inProgressPercentage =
         IF BreakdownTotal = 0 THEN 0
         ELSE RoundedPercent(Len(categorized.inProgress), BreakdownTotal)
    /\ breakdown.out.attentionPercentage =
         IF BreakdownTotal = 0 THEN 0
         ELSE RoundedPercent(Len(categorized.needsAttention), BreakdownTotal)
    /\ {breakdown.out.completedPercentage, breakdown.out.inProgressPercentage,
        breakdown.out.attentionPercentage} \subseteq 0..100

\* the part of C16 the code keeps: integers in [0,100], all 0 on an empty
\* total, and never more than 1 below the rounded share
C16_WithinOne ==
  breakdown.called =>
    /\ {breakdown.out.completedPercentage, breakdown.out.inProgressPercentage,
        breakdown.out.attentionPercentage} \subseteq 0..100
    /\ BreakdownTotal = 0 =>
         breakdown.out = [completedPercentage |-> 0, inProgressPercentage |-> 0,
                          attentionPercentage |-> 0]
    /\ BreakdownTotal > 0 =>
         /\ RoundedPercent(Len(categorized.completed), BreakdownTotal)
              - breakdown.out.completedPercentage \in {0, 1}
         /\ RoundedPercent(Len(categorized.inProgress), BreakdownTotal)
              - breakdown.out.inProgressPercentage \in {0, 1}
         /\ RoundedPercent(Len(categorized.needsAttention), BreakdownTotal)
              - breakdown.out.attentionPercentage \in {0, 1}

\* C17 as claimed: completionRate is round(100 * size of the sub-level
\* completed bucket / size of all), 0 when all is empty, and an integer in
\* [0,100] for every categorized set.
C17_Original ==
  trends.called =>
    /\ trends.out.completionRate =
         IF categorized.subEpicItems.all = <<>> THEN 0
         ELSE RoundedPercent(Len(categorized.subEpicItems.completed),
                             Len(categorized.subEpicItems.all))
    /\ trends.out.completionRate \in 0..100

\* the part of C17 the code keeps
C17_WithinOne ==
  trends.called =>
    /\ trends.out.completionRate \in 0..100
    /\ categorized.subEpicItems.all = <<>> => trends.out.completionRate = 0
    /\ categorized.subEpicItems.all # <<>> =>
         RoundedPercent(Len(categorized.subEpicItems.completed),
                        Len(categorized.subEpicItems.all))
           - trends.out.completionRate \in {0, 1}

(***************************************************************************)
(* JiraCliClient.executeDirectApiQuery, extractEpicInfo and                *)
(* extractHierarchyInfo (jira-cli-client, part_012 354-433 and 720-772).   *)
(* A JavaScript object is a record with k = "object"; a property the       *)
(* tracker did not send is Undefined or Null.                              *)
(***************************************************************************)
\* o.f throws a TypeError unless o is an object
CanRead(o) == o.k = "object"
\* o?.f
Get(o, f) == IF o.k = "object" THEN o[f] ELSE Undefined
\* v?.toLowerCase()
LowerOpt(v) == IF IsStr(v) THEN Str(ToLowerCase(v.s)) ELSE Undefined

sEpicStoryLink == Str(<<"E","p","i","c","-","S","t","o","r","y"," ","L","i","n","k">>)
sIsEpicOf == Str(<<"i","s"," ","e","p","i","c"," ","o","f">>)

\* `${config.jira.baseUrl}/browse/${key}`
BrowseUrl(key) == Str(<<"/","b","r","o","w","s","e","/">> \o key.s)

\* link.inwardIssue || link.outwardIssue
LinkedIssue(link) == Or(link.inwardIssue, link.outwardIssue)

RECURSIVE FirstEpicOfLinks(_, _)
FirstEpicOfLinks(links, i) ==
  LET \* part_012 370-371
      IsEpicLink(link) ==
        \/ Get(link.type, "name") = sEpicStoryLink
        \/ Get(link.type, "inward") = sIsEpicOf
      \* part_012 370-378: the link names an Epic
      LinksEpic(link) ==
        /\ IsEpicLink(link)
        /\ Truthy(LinkedIssue(link))
        /\ Get(Get(Get(LinkedIssue(link), "fields"), "issuetype"), "name") = sEpic
  IN IF i > Len(links) THEN Null
     ELSE IF LinksEpic(links[i])
     THEN LET epic == LinkedIssue(links[i])
          IN [k |-> "object", key |-> epic.key, summary |-> Or(epic.fields.summary, sEpic),
              url |-> BrowseUrl(epic.key)]
     ELSE FirstEpicOfLinks(links, i + 1)

\* fields.issuelinks || []
IssueLinks(fields) == IF Truthy(fields.issuelinks) THEN fields.issuelinks.items ELSE <<>>

\* mutant: the relationship records are tried before the parent-link field
ExtractEpicInfoLinksFirst(fields) ==
  IF FirstEpicOfLinks(IssueLinks(fields), 1) # Null
  THEN FirstEpicOfLinks(IssueLinks(fields), 1)
  ELSE IF Truthy(fields.customfield_12311140)
  THEN [k |-> "object", key |-> fields.customfield_12311140, summary |-> sEpic,
        url |-> BrowseUrl(fields.customfield_12311140)]
  ELSE Null

\* part_012 354-383
ExtractEpicInfo(fields) ==
  IF Truthy(fields.customfield_12311140)
  THEN [k |-> "object", key |-> fields.customfield_12311140, summary |-> sEpic,
        url |-> BrowseUrl(fields.customfield_12311140)]
  ELSE FirstEpicOfLinks(IssueLinks(fields), 1)

\* part_012 403-408, 413-418, 423-428
HierarchyRef(linkedIssue) ==
  [k |-> "object", key |-> linkedIssue.key, summary |-> linkedIssue.fields.summary,
   url |-> BrowseUrl(linkedIssue.key),
   type |-> Get(linkedIssue.fields.issuetype, "name")]

\* part_012 395-429, for one link
HierarchyOfLink(hierarchy, link) ==
  LET linkedIssue == LinkedIssue(link)
  IN IF ~Truthy(linkedIssue) \/ ~Truthy(linkedIssue.fields) THEN hierarchy
     ELSE LET linkedType == LowerOpt(Get(Get(linkedIssue.fields, "issuetype"), "name"))
              linkTypeName == Or(LowerOpt(Get(link.type, "name")), sEmpty)
              sLowerEpic == Str(<<"e","p","i","c">>)
              sLowerInitiative == Str(<<"i","n","i","t","i","a","t","i","v","e">>)
              sLowerOutcome == Str(<<"o","u","t","c","o","m","e">>)
          IN [k |-> "object",
              epic |-> IF Includes(linkTypeName.s, sLowerEpic.s) \/ linkedType = sLowerEpic
                       THEN HierarchyRef(linkedIssue) ELSE hierarchy.epic,
              initiative |-> IF linkedType = sLowerInitiative
                                \/ Includes(linkTypeName.s, sLowerInitiative.s)
                             THEN HierarchyRef(linkedIssue) ELSE hierarchy.initiative,
              outcome |-> IF linkedType = sLowerOutcome
                             \/ Includes(linkTypeName.s, sLowerOutcome.s)
                          THEN HierarchyRef(linkedIssue) ELSE hierarchy.outcome]

RECURSIVE HierarchyOfLinks(_, _, _)
HierarchyOfLinks(hierarchy, links, i) ==
  IF i > Len(links) THEN hierarchy
  ELSE CHOOSE r \in {HierarchyOfLinks(h, links, i + 1) :
                       h \in {HierarchyOfLink(hierarchy, links[i])}} : TRUE

\* hierarchy starts as { epic: null, initiative: null, outcome: null }
ExtractHierarchyInfo(fields) ==
  HierarchyOfLinks([k |-> "object", epic |-> Null, initiative |-> Null, outcome |-> Null],
                   IssueLinks(fields), 1)

\* part_012 749-767 for one issue: the object literal, or the TypeError of
\* reading .name of a missing status or issuetype
NormalizeIssue(issue) ==
  IF ~CanRead(issue.fields.status) \/ ~CanRead(issue.fields.issuetype)
  THEN [threw |-> TRUE]
  ELSE [threw |-> FALSE,
        value |->
          [key |-> issue.key,
           summary |-> issue.fields.summary,
           status |-> issue.fields.status.name,
           assignee |-> IF Truthy(issue.fields.assignee)
                        THEN issue.fields.assignee.displayName ELSE Null,
           updated |-> issue.fields.updated,
           created |-> issue.fields.created,
           priority |-> IF Truthy(issue.fields.priority)
                        THEN issue.fields.priority.name ELSE sNone,
           resolution |-> IF Truthy(issue.fields.resolution)
                          THEN issue.fields.resolution.name ELSE Null,
           issuetype |-> issue.fields.issuetype.name,
           url |-> BrowseUrl(issue.key),
           epic |-> ExtractEpicInfo(issue.fields),
           hierarchy |-> ExtractHierarchyInfo(issue.fields),
           parent |-> IF Truthy(issue.fields.parent)
                      THEN [k |-> "object", key |-> issue.fields.parent.key,
                            summary |-> Or(Get(issue.fields.parent.fields, "summary"),
                                           sUnknown),
                            url |-> BrowseUrl(issue.fields.parent.key)]
                      ELSE Null]]

\* part_012 741-767: a response that is not OK throws, and so does the map
\* when one issue throws
ExecuteDirectApiQuery(resp) ==
  IF ~resp.ok THEN [called |-> TRUE, threw |-> TRUE, issues |-> <<>>]
  ELSE LET out == [i \in 1..Len(resp.issues) |-> NormalizeIssue(resp.issues[i])]
       IN IF \E i \in 1..Len(out) : out[i].threw
          THEN [called |-> TRUE, threw |-> TRUE, issues |-> <<>>]
          ELSE [called |-> TRUE, threw |-> FALSE,
                issues |-> [i \in 1..Len(out) |-> out[i].value]]

(***************************************************************************)
(* A run of executeDirectApiQuery on one response of the tracker           *)
(***************************************************************************)
\* the longest response
MaxResponse == 2

Named(name) == [k |-> "object", name |-> name]
Linked(key, issuetype) ==
  [k |-> "object", key |-> key,
   fields |-> [k |-> "object", summary |-> Str(<<"l">>), issuetype |-> issuetype]]
Link(type, inwardIssue, outwardIssue) ==
  [k |-> "object", type |-> type, inwardIssue |-> inwardIssue,
   outwardIssue |-> outwardIssue]

RawIssue(assignee, priority, resolution, issuetype, issuelinks, parent, epicLink) ==
  [k |-> "object", key |-> Key("1"),
   fields |-> [k |-> "object", summary |-> Str(<<"s">>), status |-> Named(sToDo),
               assignee |-> assignee, updated |-> DateStr(C0 - 2),
               created |-> DateStr(C0 - 200), priority |-> priority,
               resolution |-> resolution, issuetype |-> issuetype,
               issuelinks |-> issuelinks, parent |-> parent,
               customfield_12311140 |-> epicLink]]

Responses ==
  LET \* the issuelinks of an issue: absent, empty, or one or two links; an epic
      \* link names an Epic, an issue sent without fields, or is told by its inward
      \* name alone
      LinkLists ==
        LET sRelates == Str(<<"R","e","l","a","t","e","s">>)
            EpicType == [k |-> "object", name |-> sEpicStoryLink, inward |-> sIsEpicOf]
            OtherType == [k |-> "object", name |-> sRelates, inward |-> sRelates]
            EpicLink == Link(EpicType, Linked(Key("7"), Named(sEpic)), Undefined)
            RelatesLink == Link(OtherType, Undefined, Linked(Key("8"), Named(sStory)))
            InitiativeLink == Link(OtherType, Linked(Key("6"), Named(sInitiative)), Undefined)
            EmptyLink == Link(Undefined, Undefined, Undefined)
            BareLink == Link(EpicType, [k |-> "object", key |-> Key("5"), fields |-> Undefined],
                             Undefined)
            UntypedLink == Link(Undefined, Linked(Key("4"), Undefined), Undefined)
            InwardEpicLink == Link([k |-> "object", name |-> sRelates, inward |-> sIsEpicOf],
                                   Undefined, Linked(Key("2"), Named(sEpic)))
        IN { Undefined, Arr(<<>>), Arr(<<EpicLink>>), Arr(<<RelatesLink>>),
             Arr(<<InitiativeLink>>), Arr(<<EmptyLink>>), Arr(<<BareLink>>),
             Arr(<<UntypedLink>>), Arr(<<RelatesLink, EpicLink>>),
             Arr(<<EpicLink, InitiativeLink>>), Arr(<<BareLink, EpicLink>>),
             Arr(<<InwardEpicLink, EpicLink>>) }
      RawPool ==
        LET Parents ==
              { Undefined,
                [k |-> "object", key |-> Key("3"), fields |-> Undefined],
                [k |-> "object", key |-> Key("3"),
                 fields |-> [k |-> "object", summary |-> Str(<<"p">>)]] }
        IN { RawIssue(a, p, r, t, l, par, e) :
               a \in {Null, [k |-> "object", displayName |-> Str(<<"a">>)]},
               p \in {Null, Named(Str(<<"H","i","g","h">>))},
               r \in {Null, Named(sFixed)}, t \in {Undefined, Named(sStory)},
               l \in LinkLists, par \in Parents, e \in {Null, Key("9")} }
      \* an issue with every optional field, one with none but the type, one with
      \* not even the type
      SmallRawPool ==
        { RawIssue([k |-> "object", displayName |-> Str(<<"a">>)], Named(Str(<<"H","i","g","h">>)),
                   Named(sFixed), Named(sStory), Arr(<<>>), Undefined, Key("9")),
          RawIssue(Null, Null, Null, Named(sStory), Undefined, Undefined, Null),
          RawIssue(Null, Null, Null, Undefined, Undefined, Undefined, Null) }
  IN {[ok |-> FALSE, issues |-> <<>>]}
     \cup {[ok |-> TRUE, issues |-> l] : l \in [1..1 -> RawPool]}
     \cup {[ok |-> TRUE, issues |-> l] :
             l \in UNION {[1..n -> SmallRawPool] : n \in (0..MaxResponse) \ {1}}}

FetchInit ==
  /\ NoReport
  /\ velocityData = <<>>
  /\ velocity = NotCalled
  /\ breakdown = NotCalled
  /\ trends = NotCalled
  /\ response \in Responses
  /\ fetched = NotCalled
  /\ NoClient

\* the client maps the response of a search request
DirectApiQuery ==
  /\ ~fetched.called
  /\ fetched' = ExecuteDirectApiQuery(response)
  /\ UNCHANGED reportVars
  /\ UNCHANGED <<velocityData, velocity, breakdown, trends, response>>
  /\ UNCHANGED clientVars

FetchNext == DirectApiQuery

SpecFetch == FetchInit /\ [][FetchNext]_vars

(***************************************************************************)
(* JiraCliClient.getIssuesFromMultipleBoards and executeProjectQuery       *)
(* (jira-cli-client, part_012 993-1122).  A reply is what one request      *)
(* yields: a rejected fetch, or a response with its ok flag and issues.    *)
(***************************************************************************)
\* part_012 1105-1121, and 1033-1047 with boardName: the object literal of
\* one raw issue, or the TypeError of reading .name of a missing status or
\* issuetype
ClientIssue(issue) ==
  IF ~CanRead(issue.fields.status) \/ ~CanRead(issue.fields.issuetype)
  THEN [threw |-> TRUE]
  ELSE [threw |-> FALSE,
        value |->
          [key |-> issue.key,
           summary |-> issue.fields.summary,
           status |-> issue.fields.status.name,
           assignee |-> IF Truthy(issue.fields.assignee)
                        THEN issue.fields.assignee.displayName ELSE Null,
           updated |-> issue.fields.updated,
           created |-> issue.fields.created,
           priority |-> IF Truthy(issue.fields.priority)
                        THEN issue.fields.priority.name ELSE sNone,
           resolution |-> IF Truthy(issue.fields.resolution)
                          THEN issue.fields.resolution.name ELSE Null,
           issuetype |-> issue.fields.issuetype.name,
           url |-> BrowseUrl(issue.key),
           epic |-> ExtractEpicInfo(issue.fields),
           parent |-> IF Truthy(issue.fields.parent)
                      THEN [k |-> "object", key |-> issue.fields.parent.key,
                            summary |-> Or(Get(issue.fields.parent.fields, "summary"),
                                           sUnknown),
                            url |-> BrowseUrl(issue.fields.parent.key)]
                      ELSE Null]]

\* part_012 1033-1051: data.issues.map(...) of one board
BoardIssues(data, boardName) ==
  LET out == [i \in 1..Len(data) |-> ClientIssue(data[i])]
  IN IF \E i \in 1..Len(out) : out[i].threw THEN [threw |-> TRUE]
     ELSE [threw |-> FALSE,
           issues |-> [i \in 1..Len(out) |->
                         [f \in DOMAIN out[i].value \cup {"boardName"} |->
                            IF f = "boardName" THEN boardName ELSE out[i].value[f]]]]

RECURSIVE AddUnique(_, _, _)
\* part_012 1054-1059: boardIssues.forEach from index i on; st = [allIssues, issueKeys]
AddUnique(st, boardIssues, i) ==
  IF i > Len(boardIssues) THEN st
  ELSE IF boardIssues[i].key \in st.issueKeys THEN AddUnique(st, boardIssues, i + 1)
  ELSE AddUnique([allIssues |-> Append(st.allIssues, boardIssues[i]),
                  issueKeys |-> st.issueKeys \cup {boardIssues[i].key}],
                 boardIssues, i + 1)

\* part_012 1000-1067: one iteration of the loop over selectedBoards; a
\* rejected fetch and a throwing map end in the inner catch, a response that
\* is not ok in `continue`
FetchFromBoard(st, board) ==
  IF board.reply.k = "rejected" THEN st
  ELSE IF ~board.reply.ok THEN st
  ELSE LET mapped == BoardIssues(board.reply.issues, board.name)
       IN IF mapped.threw THEN st ELSE AddUnique(st, mapped.issues, 1)

\* part_012 1081-1122
ExecuteProjectQuery(reply) ==
  IF reply.k = "rejected" THEN [threw |-> TRUE]
  ELSE IF ~reply.ok THEN [threw |-> TRUE]
  ELSE LET out == [i \in 1..Len(reply.issues) |-> ClientIssue(reply.issues[i])]
       IN IF \E i \in 1..Len(out) : out[i].threw THEN [threw |-> TRUE]
          ELSE [threw |-> FALSE, issues |-> [i \in 1..Len(out) |-> out[i].value]]

(***************************************************************************)
(* A run of getIssuesFromMultipleBoards: one step per request              *)
(***************************************************************************)
\* how many boards may be selected
MaxBoards == 2

\* the replies of the boards, in selection order, and the replies the
\* project-wide search gives to a first and to a second request
MultiInit ==
  LET Raw(key, issuetype) ==
        [RawIssue(Null, Null, Null, issuetype, Undefined, Undefined, Null)
           EXCEPT !.key = key]
      Ok(list) == [k |-> "response", ok |-> TRUE, issues |-> list]
      Failed == {[k |-> "rejected"], [k |-> "response", ok |-> FALSE, issues |-> <<>>]}
      Typed(i) == Raw(Key(i), Named(sStory))
      BoardReplies ==
        Failed \cup
        { Ok(<<>>), Ok(<<Typed("1")>>), Ok(<<Typed("1"), Typed("2")>>),
          Ok(<<Typed("2"), Typed("1")>>), Ok(<<Typed("2"), Typed("3")>>),
          Ok(<<Typed("1"), Raw(Key("2"), Undefined)>>) }
      ProjectReplies ==
        Failed \cup {Ok(<<Typed("3")>>), Ok(<<Raw(Key("3"), Undefined)>>)}
  IN /\ NoReport
     /\ NoSummaries
     /\ \E n \in 0..MaxBoards : \E replies \in [1..n -> BoardReplies] :
          boards = [i \in 1..n |-> [name |-> Str(<<ToString(i)>>), reply |-> replies[i]]]
     /\ projectReplies \in [1..2 -> ProjectReplies]
     /\ collected = [pc |-> "loop", i |-> 1, allIssues |-> <<>>, issueKeys |-> {}]
     /\ file = [k |-> "missing"]
     /\ calls = <<>>
     /\ logged = {}

\* the request to the next selected board and what is done with its reply
FetchBoard ==
  /\ collected.pc = "loop"
  /\ collected.i <= Len(boards)
  /\ \E st \in {FetchFromBoard([allIssues |-> collected.allIssues,
                                issueKeys |-> collected.issueKeys],
                               boards[collected.i])} :
       collected' = [pc |-> "loop", i |-> collected.i + 1,
                     allIssues |-> st.allIssues, issueKeys |-> st.issueKeys]
  /\ UNCHANGED <<boards, projectReplies, file, calls, logged>>
  /\ UNCHANGED reportVars
  /\ UNCHANGED <<velocityData, velocity, breakdown, trends, response, fetched>>

\* part_012 1069-1074: after the loop, allIssues is returned unless it is empty
FinishLoop ==
  /\ collected.pc = "loop"
  /\ collected.i > Len(boards)
  /\ collected' = IF collected.allIssues = <<>>
                  THEN [collected EXCEPT !.pc = "project"]
                  ELSE [pc |-> "returned", out |-> collected.allIssues]
  /\ UNCHANGED <<boards, projectReplies, file, calls, logged>>
  /\ UNCHANGED reportVars
  /\ UNCHANGED <<velocityData, velocity, breakdown, trends, response, fetched>>

\* part_012 1071 and 1076-1079: `return await this.executeProjectQuery(baseJql)`
\* inside the try block, and again in its catch block when the first throws
ProjectQuery ==
  /\ collected.pc \in {"project", "retry"}
  /\ \E r \in {ExecuteProjectQuery(projectReplies[IF collected.pc = "project"
                                                  THEN 1 ELSE 2])} :
       collected' = IF ~r.threw THEN [pc |-> "returned", out |-> r.issues]
                    ELSE IF collected.pc = "project"
                    THEN [collected EXCEPT !.pc = "retry"]
                    ELSE [pc |-> "threw"]
  /\ UNCHANGED <<boards, projectReplies, file, calls, logged>>
  /\ UNCHANGED reportVars
  /\ UNCHANGED <<velocityData, velocity, breakdown, trends, response, fetched>>

MultiNext == FetchBoard \/ FinishLoop \/ ProjectQuery

SpecMulti == MultiInit /\ [][MultiNext]_vars

(***************************************************************************)
(* Properties of the normalization of raw tracker issues                   *)
(***************************************************************************)
\* the issue has no relationship record and no parent-link field
NoLinks(fields) == IssueLinks(fields) = <<>> /\ ~Truthy(fields.customfield_12311140)

\* the documented defaults of one normalized issue
DefaultsApplied(raw, out) ==
  /\ ~Truthy(raw.fields.assignee) => out.assignee = Null
  /\ ~Truthy(raw.fields.priority) => out.priority = sNone
  /\ ~Truthy(raw.fields.resolution) => out.resolution = Null
  /\ ~Truthy(raw.fields.parent) => out.parent = Null
  /\ NoLinks(raw.fields) =>
       /\ out.epic = Null
       /\ out.hierarchy.epic = Null
       /\ out.hierarchy.initiative = Null
       /\ out.hierarchy.outcome = Null

\* C18 as claimed: normalizing never throws when assignee, priority,
\* resolution, issuetype, relationship links or parent are absent; it yields
\* priority "None", assignee null, resolution null and null parent and
\* ancestry references.
C18_Original ==
  (fetched.called /\ response.ok) =>
    /\ ~fetched.threw
    /\ Len(fetched.issues) = Len(response.issues)
    /\ \A i \in 1..Len(fetched.issues) :
         DefaultsApplied(response.issues[i], fetched.issues[i])

\* the part of C18 the code keeps: with an issuetype on every issue nothing
\* is thrown and the defaults are applied; an issue without issuetype makes
\* the whole query throw
C18_WhenTypePresent ==
  (fetched.called /\ response.ok) =>
    IF \A i \in 1..Len(response.issues) : CanRead(response.issues[i].fields.issuetype)
    THEN /\ ~fetched.threw
         /\ Len(fetched.issues) = Len(response.issues)
         /\ \A i \in 1..Len(fetched.issues) :
              DefaultsApplied(response.issues[i], fetched.issues[i])
    ELSE fetched.threw

(***************************************************************************)
(* Further properties of categorizeJiraCliIssues                           *)
(***************************************************************************)
\* the needsAttention entries of the latest call, of the legacy view and of
\* both level groups
AttentionEntries ==
  Range(lastCall.out.needsAttention) \cup Range(lastCall.out.epics.needsAttention)
  \cup Range(lastCall.out.subEpicItems.needsAttention)

\* C19 as claimed: an entry of needsAttention has reason "Stale (no updates
\* for over a week)" iff now - updated exceeds 7 x 24 hours, and "No recent
\* updates" otherwise; lastUpdated is the date of `updated`.
C19_Original ==
  Returned =>
    \A e \in AttentionEntries :
      /\ e.reason = IF HoursSince(e.updated) > 7 * HoursPerDay
                    THEN "Stale (no updates for over a week)"
                    ELSE "No recent updates"
      /\ e.lastUpdated = [k |-> "string", day |-> e.updated.date \div HoursPerDay]

\* C19 amended: an entry of needsAttention has reason "Stale (no updates for
\* over a week)" iff the number of whole days elapsed since `updated` is
\* greater than 7 (at least 8 x 24 hours have passed), and "No recent updates"
\* otherwise; lastUpdated is the UTC date of `updated`.
C19_Amended ==
  Returned =>
    \A e \in AttentionEntries :
      /\ IsDateStr(e.updated)
      /\ e.reason = IF HoursSince(e.updated) >= 8 * HoursPerDay
                    THEN "Stale (no updates for over a week)"
                    ELSE "No recent updates"
      /\ e.lastUpdated = [k |-> "string", day |-> e.updated.date \div HoursPerDay]

\* an entry updated between 7 and 8 days before the call carries "No recent
\* updates"
C19_Witness ==
  /\ Returned
  /\ \E e \in Range(lastCall.out.needsAttention) :
       /\ HoursSince(e.updated) > 7 * HoursPerDay
       /\ HoursSince(e.updated) < 8 * HoursPerDay
       /\ e.reason = "No recent updates"

\* list `part` is list `whole` restricted to the addresses of `part`
SubListOf(part, whole) ==
  SelectSeq(whole, LAMBDA a : a \in Range(part)) = part

\* the records behind `bucket` are copies of input issues at increasing positions
InInputOrder(bucket) ==
  \E f \in [1..Len(bucket) -> 1..Len(issues)] :
    /\ \A i \in 1..Len(bucket), j \in 1..Len(bucket) : i < j => f[i] < f[j]
    /\ \A j \in 1..Len(bucket) : IsCopyOf(heap[bucket[j]], heap[issues[f[j]]])

\* C20: each legacy bucket holds exactly the entries of the epics bucket and
\* of the subEpicItems bucket of its name, once each and in input order, so
\* its length is the sum of the two lengths; completedIssues, inProgressIssues
\* and issuesNeedingAttention are the legacy lists completed, inProgress and
\* needsAttention.
C20_LegacyPoolsLevels ==
  (lastCall.k = "call" /\ ~threw) =>
    /\ \A b \in BucketNames :
         LET legacy == categorized[b]
             top == categorized.epics[b]
             sub == categorized.subEpicItems[b]
         IN /\ Len(legacy) = Len(top) + Len(sub)
            /\ Range(legacy) = Range(top) \cup Range(sub)
            /\ Cardinality(Range(legacy)) = Len(legacy)
            /\ SubListOf(top, legacy)
            /\ SubListOf(sub, legacy)
            /\ InInputOrder(legacy)
    /\ categorized.completedIssues = categorized.completed
    /\ categorized.inProgressIssues = categorized.inProgress
    /\ categorized.issuesNeedingAttention = categorized.needsAttention

\* a legacy bucket pools an epics entry and a sub-level entry
C20_Witness ==
  /\ lastCall.k = "call" /\ ~threw
  /\ \E b \in BucketNames :
       /\ categorized.epics[b] # <<>>
       /\ categorized.subEpicItems[b] # <<>>
       /\ Len(categorized[b]) = 2

(***************************************************************************)
(* Order of the output of groupIssuesByEpic                                *)
(***************************************************************************)
\* the input position of the object at address a
PositionOf(a) == CHOOSE i \in Positions : issues[i] = a

\* the listed objects stand at increasing input positions
Ascending(list) ==
  \A j \in 1..Len(list), k \in 1..Len(list) :
    j < k => PositionOf(list[j]) < PositionOf(list[k])

\* the input positions whose record names e as its parent key
NamingEpic(e) == {i \in Positions : HasEpic(IssueAt(i)) /\ IssueAt(i).epic.key = e}

Least(S) == CHOOSE i \in S : \A j \in S : i <= j

\* C21 as claimed: the groups stand in the order in which their parent keys
\* are first encountered anywhere in the input, and relatedIssues of every
\* group and unassociatedIssues list the issues in input order.
C21_Original ==
  grouped.called =>
    /\ \A g1 \in 1..Len(grouped.epicsWithIssues), g2 \in 1..Len(grouped.epicsWithIssues) :
         g1 < g2 => Least(NamingEpic(grouped.epicsWithIssues[g1].epic.key))
                      < Least(NamingEpic(grouped.epicsWithIssues[g2].epic.key))
    /\ \A g \in 1..Len(grouped.epicsWithIssues) :
         Ascending(grouped.epicsWithIssues[g].relatedIssues)
    /\ Ascending(grouped.unassociatedIssues)

\* C21 amended: the groups stand in the order in which their parent keys are
\* first encountered among the records that are the first of their issue key
\* (a later record of a repeated key is skipped and opens no group), and
\* relatedIssues of every group and unassociatedIssues list the issues in
\* input order.
C21_FirstProcessedOrder ==
  grouped.called =>
    /\ \A g \in 1..Len(grouped.epicsWithIssues) :
         {i \in NamingEpic(grouped.epicsWithIssues[g].epic.key) : FirstOfKey(i)} # {}
    /\ \A g1 \in 1..Len(grouped.epicsWithIssues), g2 \in 1..Len(grouped.epicsWithIssues) :
         g1 < g2 =>
           Least({i \in NamingEpic(grouped.epicsWithIssues[g1].epic.key) : FirstOfKey(i)})
             < Least({i \in NamingEpic(grouped.epicsWithIssues[g2].epic.key) : FirstOfKey(i)})
    /\ \A g \in 1..Len(grouped.epicsWithIssues) :
         Ascending(grouped.epicsWithIssues[g].relatedIssues)
    /\ Ascending(grouped.unassociatedIssues)

\* a skipped record names epic K-1 before any processed record does, a record
\* under another epic is processed in between, and the call has built both
\* groups and a group of two related issues or more
C21_Witness ==
  /\ grouped.called
  /\ Len(grouped.epicsWithIssues) = 2
  /\ \E i \in NamingEpic(grouped.epicsWithIssues[2].epic.key) :
       /\ ~FirstOfKey(i)
       /\ \A j \in NamingEpic(grouped.epicsWithIssues[1].epic.key) : i < j
  /\ RelatedOfAll(grouped.epicsWithIssues) # <<>>

(***************************************************************************)
(* Properties of generateSubEpicTrendAnalysis                              *)
(***************************************************************************)
\* the items of subEpicItems.all, as records
AllItems == Deref(heap, categorized.subEpicItems.all)

\* the byType key of an item
TypeKey(item) == IF Truthy(item.issuetype) THEN item.issuetype ELSE sUnknown

TypeKeys == {TypeKey(AllItems[i]) : i \in 1..Len(AllItems)}
ItemsOfType(t) == {i \in 1..Len(AllItems) : TypeKey(AllItems[i]) = t}

\* type t stands before type u: more items, or as many and encountered first
RanksBefore(t, u) ==
  \/ Cardinality(ItemsOfType(t)) > Cardinality(ItemsOfType(u))
  \/ /\ Cardinality(ItemsOfType(t)) = Cardinality(ItemsOfType(u))
     /\ Least(ItemsOfType(t)) < Least(ItemsOfType(u))

RankOf(t) == 1 + Cardinality({u \in TypeKeys : RanksBefore(u, t)})

\* C22: summary.topTypes holds min(3, number of types) entries; its i-th entry
\* is the type of rank i when the types are ordered by decreasing total and,
\* for equal totals, by first encounter in `all`, and carries that total.
C22_TopTypesRanked ==
  trends.called =>
    LET top == trends.out.summary.topTypes IN
      /\ Len(top) = IF Cardinality(TypeKeys) < 3 THEN Cardinality(TypeKeys) ELSE 3
      /\ \A i \in 1..Len(top) :
           /\ top[i].type \in TypeKeys
           /\ RankOf(top[i].type) = i
           /\ top[i].total = Cardinality(ItemsOfType(top[i].type))
      /\ \A i \in 1..Len(top), j \in 1..Len(top) : i < j => top[i].total >= top[j].total

\* four types are tallied and the types of rank 3 and 4 have equal totals:
\* the one encountered first takes the third slot
C22_Witness ==
  /\ trends.called
  /\ Cardinality(TypeKeys) = 4
  /\ Len(trends.out.summary.topTypes) = 3
  /\ \E t \in TypeKeys, u \in TypeKeys :
       /\ RankOf(t) = 3 /\ RankOf(u) = 4
       /\ Cardinality(ItemsOfType(t)) = Cardinality(ItemsOfType(u))
       /\ trends.out.summary.topTypes[3].type = t

\* the byStatus key of an item
StatusKey(item) == IF Truthy(item.status) THEN item.status ELSE sUnknown

RECURSIVE SumField(_, _)
\* the sum of field f over a list of entries
SumField(entries, f) ==
  IF entries = <<>> THEN 0 ELSE Head(entries)[f] + SumField(Tail(entries), f)

\* C23: every item of `all` is tallied once into byType and once into
\* byStatus, under "Unknown" when its type or status is missing: each key has
\* one entry, which counts the items of that key, and the byType totals and
\* the byStatus counts both add up to totalItems = length of `all`.
C23_TalliedOnce ==
  trends.called =>
    LET byType == trends.out.byType
        byStatus == trends.out.byStatus
    IN /\ trends.out.totalItems = Len(AllItems)
       /\ SumField(byType, "total") = Len(AllItems)
       /\ SumField(byStatus, "count") = Len(AllItems)
       /\ {byType[i].type : i \in 1..Len(byType)} = TypeKeys
       /\ {byStatus[i].status : i \in 1..Len(byStatus)}
            = {StatusKey(AllItems[i]) : i \in 1..Len(AllItems)}
       /\ \A i \in 1..Len(byType), j \in 1..Len(byType) :
            i # j => byType[i].type # byType[j].type
       /\ \A i \in 1..Len(byStatus), j \in 1..Len(byStatus) :
            i # j => byStatus[i].status # byStatus[j].status
       /\ \A i \in 1..Len(byType) :
            byType[i].total = Cardinality(ItemsOfType(byType[i].type))
       /\ \A i \in 1..Len(byStatus) :
            byStatus[i].count =
              Cardinality({k \in 1..Len(AllItems) : StatusKey(AllItems[k]) = byStatus[i].status})

\* items without a type and items without a status are tallied next to typed
\* ones, and a key counts two items
C23_Witness ==
  /\ trends.called
  /\ \E i \in 1..Len(AllItems) : ~Truthy(AllItems[i].issuetype)
  /\ \E i \in 1..Len(AllItems) : ~Truthy(AllItems[i].status)
  /\ \E i \in 1..Len(trends.out.byType) :
       trends.out.byType[i].type = sUnknown /\ trends.out.byType[i].total = 2
  /\ \E i \in 1..Len(trends.out.byStatus) : trends.out.byStatus[i].status = sUnknown
  /\ Len(trends.out.byType) >= 2

\* C25 as claimed: for the categorized set categorize returns, the completed
\* tallies of byType add up to the size of the sub-level completed bucket and
\* the inProgress tallies to the size of the sub-level inProgress bucket.
C25_Original ==
  trends.called =>
    /\ SumField(trends.out.byType, "completed") = Len(categorized.subEpicItems.completed)
    /\ SumField(trends.out.byType, "inProgress") = Len(categorized.subEpicItems.inProgress)

\* what the tallies do count: completed counts the items with a resolution,
\* whatever their status; inProgress the items without a resolution whose
\* status has an in-progress word
C25_ResolutionOnly ==
  trends.called =>
    /\ SumField(trends.out.byType, "completed")
         = Cardinality({i \in 1..Len(AllItems) : Truthy(AllItems[i].resolution)})
    /\ SumField(trends.out.byType, "inProgress")
         = Cardinality({i \in 1..Len(AllItems) :
                          /\ ~Truthy(AllItems[i].resolution)
                          /\ IsInProgress(LowerOrEmpty(AllItems[i].status))})

\* the three percentages of the work breakdown, added up
PercentageSum ==
  breakdown.out.completedPercentage + breakdown.out.inProgressPercentage
    + breakdown.out.attentionPercentage

\* C27: when the three buckets given to calculateWorkBreakdown are not all
\* empty, the three percentages add up to 99, 100 or 101, also when an issue
\* is in two of the buckets.
C27_SumNearHundred ==
  (breakdown.called /\ BreakdownTotal > 0) => PercentageSum \in {99, 100, 101}

\* an issue is both in the inProgress and in the needsAttention bucket, and
\* rounding has moved the sum of the percentages away from 100
C27_Witness ==
  /\ breakdown.called
  /\ BreakdownTotal > 0
  /\ \E i \in 1..Len(categorized.inProgress), j \in 1..Len(categorized.needsAttention) :
       heap[categorized.inProgress[i]].key = heap[categorized.needsAttention[j]].key
  /\ PercentageSum = 99

(***************************************************************************)
(* Accounting of groupIssuesByEpic                                         *)
(***************************************************************************)
DistinctKeys == {IssueAt(i).key : i \in Positions}

\* the input positions whose record names its own key as its parent key
SelfReferencing ==
  {i \in Positions : HasEpic(IssueAt(i)) /\ IssueAt(i).epic.key = IssueAt(i).key}

\* C26 as claimed: the number of distinct input keys is the number of related
\* issues over all groups, plus the number of unassociated issues, plus the
\* number of input issues whose own key is their parent key; every listed
\* issue is an input issue.
C26_Original ==
  grouped.called =>
    /\ Cardinality(DistinctKeys) =
         Len(RelatedOfAll(grouped.epicsWithIssues)) + Len(grouped.unassociatedIssues)
           + Cardinality(SelfReferencing)
    /\ Range(Listed) \subseteq Range(issues)

\* C26 amended: the issues counted as absorbed are the keys whose first record
\* names its own key as parent key; later records of a key are not counted,
\* whatever they name.  Every first record of a key is listed or absorbed,
\* and every listed issue is an input issue.
C26_FirstRecordsAccounted ==
  grouped.called =>
    /\ Cardinality(DistinctKeys) =
         Len(RelatedOfAll(grouped.epicsWithIssues)) + Len(grouped.unassociatedIssues)
           + Cardinality({i \in SelfReferencing : FirstOfKey(i)})
    /\ Range(Listed) \subseteq Range(issues)
    /\ \A i \in Positions :
         FirstOfKey(i) => (issues[i] \in Range(Listed)) # (i \in SelfReferencing)

\* the input holds a key whose first record is absorbed as epic metadata, a
\* key with a later record that names itself as parent and is skipped, and
\* the call has listed related and unassociated issues
C26_Witness ==
  /\ grouped.called
  /\ \E i \in SelfReferencing : FirstOfKey(i)
  /\ \E i \in SelfReferencing : ~FirstOfKey(i)
  /\ RelatedOfAll(grouped.epicsWithIssues) # <<>>
  /\ grouped.unassociatedIssues # <<>>

(***************************************************************************)
(* Parent and ancestry extraction                                          *)
(***************************************************************************)
\* the relationship records of raw issue i of the response
LinksOf(i) == IssueLinks(response.issues[i].fields)

\* the type of the record denotes an epic link
DenotesEpicLink(link) ==
  \/ (link.type.k = "object" /\ link.type.name = sEpicStoryLink)
  \/ (link.type.k = "object" /\ link.type.inward = sIsEpicOf)

\* the issue at the other end of the record
OtherEnd(link) == IF Truthy(link.inwardIssue) THEN link.inwardIssue ELSE link.outwardIssue

\* the other end of the record is an issue of type Epic
NamesEpic(link) ==
  /\ OtherEnd(link).k = "object"
  /\ OtherEnd(link).fields.k = "object"
  /\ OtherEnd(link).fields.issuetype.k = "object"
  /\ OtherEnd(link).fields.issuetype.name = sEpic

\* the record relates the issue to an issue of level `word`
RelatesToLevel(link, word) ==
  /\ OtherEnd(link).k = "object"
  /\ OtherEnd(link).fields.k = "object"
  /\ \/ /\ OtherEnd(link).fields.issuetype.k = "object"
        /\ ToLowerCase(OtherEnd(link).fields.issuetype.name.s) = word
     \/ /\ link.type.k = "object"
        /\ Includes(ToLowerCase(link.type.name.s), word)

\* the ancestry reference of a level is null when no record relates the issue
\* to that level, and otherwise names the other end of such a record
AncestryFromLinks(i, ref, word) ==
  IF \A j \in 1..Len(LinksOf(i)) : ~RelatesToLevel(LinksOf(i)[j], word)
  THEN ref = Null
  ELSE \E j \in 1..Len(LinksOf(i)) :
         RelatesToLevel(LinksOf(i)[j], word) /\ ref.key = OtherEnd(LinksOf(i)[j]).key

AncestryIndependent(i) ==
  /\ AncestryFromLinks(i, fetched.issues[i].hierarchy.initiative,
                       <<"i","n","i","t","i","a","t","i","v","e">>)
  /\ AncestryFromLinks(i, fetched.issues[i].hierarchy.outcome,
                       <<"o","u","t","c","o","m","e">>)

\* C24 as claimed: a populated parent-link field gives the parent reference
\* whatever the relationship records say; otherwise the first record whose
\* type denotes an epic link gives it; with no such record it is null.  The
\* ancestry is read from the records whichever way the parent was found.
C24_Original ==
  (fetched.called /\ ~fetched.threw) =>
    \A i \in 1..Len(fetched.issues) :
      LET fields == response.issues[i].fields
          epicLinks == {j \in 1..Len(LinksOf(i)) : DenotesEpicLink(LinksOf(i)[j])}
      IN /\ IF Truthy(fields.customfield_12311140)
            THEN fetched.issues[i].epic.key = fields.customfield_12311140
            ELSE IF epicLinks # {}
            THEN /\ fetched.issues[i].epic # Null
                 /\ fetched.issues[i].epic.key = OtherEnd(LinksOf(i)[Least(epicLinks)]).key
            ELSE fetched.issues[i].epic = Null
         /\ AncestryIndependent(i)

\* C24 amended: a relationship record gives the parent reference only when
\* its type denotes an epic link and its other end is an issue of type Epic;
\* an epic link to anything else is passed over and the scan goes on.
C24_FirstEpicTyped ==
  (fetched.called /\ ~fetched.threw) =>
    \A i \in 1..Len(fetched.issues) :
      LET fields == response.issues[i].fields
          epicLinks == {j \in 1..Len(LinksOf(i)) :
                          DenotesEpicLink(LinksOf(i)[j]) /\ NamesEpic(LinksOf(i)[j])}
      IN /\ IF Truthy(fields.customfield_12311140)
            THEN fetched.issues[i].epic.key = fields.customfield_12311140
            ELSE IF epicLinks # {}
            THEN /\ fetched.issues[i].epic # Null
                 /\ fetched.issues[i].epic.key = OtherEnd(LinksOf(i)[Least(epicLinks)]).key
            ELSE fetched.issues[i].epic = Null
         /\ AncestryIndependent(i)

\* an issue with the parent-link field and with an epic link to another key
\* and a link to an initiative: the field decides the parent, the records the
\* ancestry
C24_Witness ==
  /\ fetched.called /\ ~fetched.threw
  /\ \E i \in 1..Len(fetched.issues) :
       /\ Truthy(response.issues[i].fields.customfield_12311140)
       /\ \E j \in 1..Len(LinksOf(i)) :
            /\ DenotesEpicLink(LinksOf(i)[j]) /\ NamesEpic(LinksOf(i)[j])
            /\ OtherEnd(LinksOf(i)[j]).key # fetched.issues[i].epic.key
       /\ fetched.issues[i].hierarchy.initiative # Null

(***************************************************************************)
(* Properties of the multi-board fetch                                     *)
(***************************************************************************)
\* the call has returned a list
Returned28 == collected.pc = "returned"

\* board b answered with an ok response
Answered(b) == boards[b].reply.k = "response" /\ boards[b].reply.ok

\* the response of board b holds only issues with a status and a type
WellFormed(b) ==
  \A j \in 1..Len(boards[b].reply.issues) :
    /\ boards[b].reply.issues[j].fields.status.k = "object"
    /\ boards[b].reply.issues[j].fields.issuetype.k = "object"

\* the boards whose response holds an issue of key k
BoardsReturning(key) ==
  {b \in 1..Len(boards) :
     Answered(b) /\ \E j \in 1..Len(boards[b].reply.issues) :
                      boards[b].reply.issues[j].key = key}

\* where key k is first seen: the first board of the set S that returns it
\* and its position in the response of that board
FirstSeen(key, S) ==
  LET b == Least(S)
  IN <<b, CHOOSE j \in 1..Len(boards[b].reply.issues) : boards[b].reply.issues[j].key = key>>

\* the returned list takes every issue from the first board of Sources(key)
\* and keeps the order, board by board, in which the keys are first seen
FirstBoardKept(Sources(_)) ==
  LET out == collected.out IN
    /\ \A i \in 1..Len(out), j \in 1..Len(out) : i # j => out[i].key # out[j].key
    /\ \A i \in 1..Len(out) :
         Sources(out[i].key) # {} =>
           /\ "boardName" \in DOMAIN out[i]
           /\ out[i].boardName = boards[Least(Sources(out[i].key))].name
    /\ \A i \in 1..Len(out), j \in 1..Len(out) :
         (i < j /\ Sources(out[i].key) # {} /\ Sources(out[j].key) # {}) =>
           LET si == FirstSeen(out[i].key, Sources(out[i].key))
               sj == FirstSeen(out[j].key, Sources(out[j].key))
           IN si[1] < sj[1] \/ (si[1] = sj[1] /\ si[2] < sj[2])

\* C28 as claimed: the returned list never holds a key twice; an issue
\* returned by several selected boards is kept as the record of the first of
\* them in selection order, and the issues stand in the order, board by
\* board, in which they were first seen.
C28_Original == Returned28 => FirstBoardKept(BoardsReturning)

\* the part of C28 the code keeps: the same with the boards counted only when
\* every issue of their response has a status and a type; a response with one
\* issue lacking them is dropped as a whole
C28_AmongWellFormed ==
  Returned28 =>
    FirstBoardKept(LAMBDA key : {b \in BoardsReturning(key) : WellFormed(b)})

\* board b is healthy and has issues to give
Yielded(b) == Answered(b) /\ boards[b].reply.issues # <<>>

\* the n-th request of the project-wide search ends in an error
ProjectFails(n) ==
  \/ projectReplies[n].k = "rejected"
  \/ ~projectReplies[n].ok
  \/ \E j \in 1..Len(projectReplies[n].issues) :
       projectReplies[n].issues[j].fields.issuetype.k # "object"

\* C29 as claimed: failed and non-OK boards are skipped and the others are
\* still queried, so the call returns the issues of every healthy board; the
\* project-wide search is used iff no board yielded an issue, and then its
\* error, if any, reaches the caller.
C29_Original ==
  /\ (collected.pc \in {"returned", "threw"} /\ \E b \in 1..Len(boards) : Yielded(b)) =>
       /\ collected.pc = "returned"
       /\ \A b \in 1..Len(boards) :
            Answered(b) =>
              \A j \in 1..Len(boards[b].reply.issues) :
                \E i \in 1..Len(collected.out) :
                  collected.out[i].key = boards[b].reply.issues[j].key
  /\ collected.pc \in {"project", "retry", "threw"} => \A b \in 1..Len(boards) : ~Yielded(b)
  /\ (collected.pc = "returned" /\ \A b \in 1..Len(boards) : ~Yielded(b)) =>
       ~ProjectFails(1)
  /\ collected.pc = "threw" => ProjectFails(1)

\* the part of C29 the code keeps: a board counts as yielding only when every
\* issue of its response has a status and a type; the project-wide search is
\* asked a second time when its first request fails, and the caller gets an
\* error only when both requests fail
C29_RetriedOnce ==
  LET Usable(b) == Yielded(b) /\ WellFormed(b) IN
    /\ (collected.pc \in {"returned", "threw"} /\ \E b \in 1..Len(boards) : Usable(b)) =>
         /\ collected.pc = "returned"
         /\ \A b \in 1..Len(boards) :
              Usable(b) =>
                \A j \in 1..Len(boards[b].reply.issues) :
                  \E i \in 1..Len(collected.out) :
                    collected.out[i].key = boards[b].reply.issues[j].key
    /\ collected.pc \in {"project", "retry", "threw"} => \A b \in 1..Len(boards) : ~Usable(b)
    /\ (collected.pc = "returned" /\ \A b \in 1..Len(boards) : ~Usable(b)) =>
         ~ProjectFails(1) \/ ~ProjectFails(2)
    /\ collected.pc = "threw" => ProjectFails(1) /\ ProjectFails(2)
    /\ collected.pc = "retry" => ProjectFails(1)

(***************************************************************************)
(* ActivityTracker (activity-tracker, part_002 8-120).  The activity file  *)
(* is missing, holds the JSON text of an activity object, or is being      *)
(* rewritten: fs.writeFile truncates the file before it writes, and a      *)
(* reader in between gets text that JSON.parse rejects.  logActivity       *)
(* awaits the read and the write; what lies between the two awaits runs    *)
(* without interruption.  The calls carry no projectKey and no duration.   *)
(***************************************************************************)
\* part_002 110: the activity log keeps its last 1000 entries
LogCap == 1000

\* part_002 39-56
GetDefaultActivity(agentId, now) ==
  [workspace |-> [created |-> now, last_activity |-> now, agent_id |-> agentId],
   activity_log |-> <<>>,
   metrics |-> [total_api_calls |-> 0, total_reports_generated |-> 0,
                average_report_time |-> 0]]

\* part_002 19-27: the parsed file, or the default when reading or parsing throws
LoadActivity(f, agentId, now) ==
  IF f.k = "json" THEN f.activity ELSE GetDefaultActivity(agentId, now)

\* part_002 61-114: logEntry is pushed, workspace and metrics are updated and
\* the log is cut to its last LogCap entries
LogActivity(activity, logEntry, now) ==
  LET log == Append(activity.activity_log, logEntry)
  IN [workspace |-> [activity.workspace EXCEPT !.last_activity = now,
                                                !.agent_id = logEntry.agent_id],
      activity_log |-> IF Len(log) > LogCap
                       THEN SubSeq(log, Len(log) - LogCap + 1, Len(log)) ELSE log,
      metrics |-> [activity.metrics EXCEPT
                     !.total_api_calls =
                        IF logEntry.type = "api_call" THEN @ + 1 ELSE @,
                     !.total_reports_generated =
                        IF logEntry.type = "report_generated" THEN @ + 1 ELSE @]]

(***************************************************************************)
(* Calls of logActivity that may overlap                                   *)
(***************************************************************************)
\* how many calls of logActivity are made
MaxCalls == 2

\* each call belongs to a tracker (its agent id) and logs one type; the file
\* is missing or holds what an earlier call saved
TrackInit ==
  LET Agents == {"agent_1", "agent_2"}
      Types == {"api_call", "report_generated", "workflow_command"}
      earlier == [id |-> 0, agent_id |-> "agent_0", type |-> "api_call",
                  project_key |-> Null, success |-> TRUE]
  IN /\ NoReport
     /\ NoSummaries
     /\ boards = <<>>
     /\ projectReplies = <<>>
     /\ collected = NotCalled
     /\ \E n \in 1..MaxCalls :
          calls \in [1..n -> [pc : {"called"}, agent_id : Agents, type : Types]]
     /\ \/ file = [k |-> "missing"] /\ logged = {}
        \/ /\ file = [k |-> "json",
                      activity |-> LogActivity(GetDefaultActivity("agent_0", clock),
                                                earlier, clock)]
           /\ logged = {earlier}

\* call c: `await this.loadActivity()` resolves and the call runs up to
\* `await this.saveActivity(activity)`
Load(c) ==
  /\ calls[c].pc = "called"
  /\ LET logEntry == [id |-> c, agent_id |-> calls[c].agent_id, type |-> calls[c].type,
                      project_key |-> Null, success |-> TRUE]
     IN calls' = [calls EXCEPT ![c] =
                    [pc |-> "loaded", agent_id |-> calls[c].agent_id,
                     type |-> calls[c].type, logEntry |-> logEntry,
                     activity |-> LogActivity(LoadActivity(file, calls[c].agent_id, clock),
                                               logEntry, clock)]]
  /\ UNCHANGED <<boards, projectReplies, collected, file, logged>>
  /\ UNCHANGED reportVars
  /\ UNCHANGED <<velocityData, velocity, breakdown, trends, response, fetched>>

\* call c: fs.writeFile opens the activity file, which truncates it
StartSave(c) ==
  /\ calls[c].pc = "loaded"
  /\ calls' = [calls EXCEPT ![c].pc = "saving"]
  /\ file' = [k |-> "partial"]
  /\ UNCHANGED <<boards, projectReplies, collected, logged>>
  /\ UNCHANGED reportVars
  /\ UNCHANGED <<velocityData, velocity, breakdown, trends, response, fetched>>

\* call c: fs.writeFile has written JSON.stringify(activity); logActivity
\* returns logEntry
FinishSave(c) ==
  /\ calls[c].pc = "saving"
  /\ calls' = [calls EXCEPT ![c].pc = "returned"]
  /\ file' = [k |-> "json", activity |-> calls[c].activity]
  /\ logged' = logged \cup {calls[c].logEntry}
  /\ UNCHANGED <<boards, projectReplies, collected>>
  /\ UNCHANGED reportVars
  /\ UNCHANGED <<velocityData, velocity, breakdown, trends, response, fetched>>

TrackNext == \E c \in 1..Len(calls) : Load(c) \/ StartSave(c) \/ FinishSave(c)

SpecTrack == TrackInit /\ [][TrackNext]_vars

(***************************************************************************)
(* Properties of ActivityTracker.logActivity                               *)
(***************************************************************************)
\* every call has returned
AllReturned == \A c \in 1..Len(calls) : calls[c].pc = "returned"

\* C30 as claimed: when all calls of logActivity have returned, the saved
\* activity_log holds the entry of every call (and the entries saved before),
\* and the metrics count every api_call and every report_generated entry.
C30_Original ==
  (calls # <<>> /\ AllReturned) =>
    /\ file.k = "json"
    /\ \A e \in logged :
         \E i \in 1..Len(file.activity.activity_log) : file.activity.activity_log[i] = e
    /\ file.activity.metrics.total_api_calls
         = Cardinality({e \in logged : e.type = "api_call"})
    /\ file.activity.metrics.total_reports_generated
         = Cardinality({e \in logged : e.type = "report_generated"})

\* what holds whatever the interleaving: the file ends as the activity of the
\* call that finished writing last, which holds that call's own entry
C30_LastWriterWins ==
  (calls # <<>> /\ AllReturned) =>
    /\ file.k = "json"
    /\ \E c \in 1..Len(calls) :
         /\ file.activity = calls[c].activity
         /\ file.activity.activity_log[Len(file.activity.activity_log)] = calls[c].logEntry

====
